---- MODULE Spec2Model ----
(***************************************************************************)
(* Verification model of osm-revert (Zaczero/osm-revert).                  *)
(*                                                                         *)
(* The Three-Way Inverter (osm_revert/invert.py) together with             *)
(* merge_and_sort_diffs (osm_revert/main.py).  Elements are Python dicts   *)
(* that are passed around by reference, so they live in a heap and the     *)
(* DiffEntry records hold addresses.                                       *)
(***************************************************************************)
EXTENDS Integers, Sequences, FiniteSets, TLC

\* ------------------------------------------------------------------------
\* Bounds of the model
\* ------------------------------------------------------------------------
\* number of versions in the server history of the element under revert
MaxVersions == 3
\* the same, for the runs over elements with many tags or references
MaxRichVersions == 3
\* number of target change sets reverted in one run
MaxChangesets == 2
\* length of the sequences handed to the Diff-Patch Engine
MaxDmpLen == 2
\* number of configured mirrors (OVERPASS_URLS)
MaxMirrors == 2
\* number of partitions (edit timestamps) of a change set
MaxPartitions == 2
\* nodes of the world the Parent Consistency Fixer runs in
MaxNodes == 2
\* depth of the chains of nested relations handed to it
MaxChain == 10
\* relations of one upload
MaxRelations == 3
MaxCallTime == 1
\* number of actions in the answer to a filtered query
MaxFiltered == 2
\* number of websocket connections that are opened
MaxConnections == 3
\* number of proxy requests that are made
MaxRequests == 2

\* ------------------------------------------------------------------------
\* Basic values
\* ------------------------------------------------------------------------
TypeOrder == <<"node", "way", "relation">>
Types == {"node", "way", "relation"}
Keys == {"k1", "k2"}
Vals == {"a", "b", "c"}
\* a tag key that the element does not have (dict.get(key) is None)
Absent == "absent"
\* Python None for element_old / for a missing _current_map entry
None == 0

NoTags == [k \in Keys |-> Absent]
Range(s) == {s[i] : i \in 1..Len(s)}
NoDup(s) == \A i, j \in 1..Len(s) : s[i] = s[j] => i = j

\* A member reference: way <nd ref=../> has only a ref, relation <member/>
\* has type, ref and role.
Nd(r) == [type |-> "node", ref |-> r, role |-> ""]
Member(t, r, role) == [type |-> t, ref |-> r, role |-> role]

\* json.dumps / json.loads of one reference (the token handed to dmp)
json_dumps(m) == <<m.type, m.ref, m.role>>
json_loads(t) == [type |-> t[1], ref |-> t[2], role |-> t[3]]
Dumps(refs) == [i \in 1..Len(refs) |-> json_dumps(refs[i])]
Loads(toks) == [i \in 1..Len(toks) |-> json_loads(toks[i])]

\* An element as parsed by xmltodict.  tagkind / refkind record the Python
\* container that holds the tags / references: "none" (key missing),
\* "list" (what the parser produced) or "tuple" (what the inverter wrote);
\* a list never compares equal to a tuple.  visorig is '@visible:original'.
Element(id, version, c) ==
    [id |-> id, visible |-> c.visible, version |-> version,
     tag |-> c.tag, tagkind |-> IF c.tag = NoTags THEN "none" ELSE "list",
     lat |-> c.lat, lon |-> c.lon,
     refs |-> c.refs, refkind |-> IF c.refs = <<>> THEN "none" ELSE "list",
     visorig |-> "unset"]

\* ------------------------------------------------------------------------
\* osm_revert/utils.py, osm_revert/overpass.py helpers
\* ------------------------------------------------------------------------
\* ensure_iterable(current.get('tag', ())): a missing key becomes the empty
\* tuple, a list or tuple is kept
ensure_iterable_kind(kind) == IF kind = "none" THEN "tuple" ELSE kind

\* ------------------------------------------------------------------------
\* Inverter: tag reconciliation
\* ------------------------------------------------------------------------
\* the "ignore only_tags mode" test shared by the three tag passes
SkipKey(only, key) == only # {} /\ key \notin only

invert_tags_create(only, old_tags, new_tags, current_tags) ==
    [key \in Keys |->
        IF /\ new_tags[key] # Absent /\ new_tags[key] # old_tags[key]
           /\ ~SkipKey(only, key)
           /\ old_tags[key] = Absent
           /\ current_tags[key] = new_tags[key]
        THEN Absent
        ELSE current_tags[key]]

invert_tags_modify_force(only, old_tags, new_tags, current_tags) ==
    [key \in Keys |->
        IF /\ new_tags[key] # Absent /\ new_tags[key] # old_tags[key]
           /\ ~SkipKey(only, key)
           /\ old_tags[key] # Absent
        THEN old_tags[key]
        ELSE current_tags[key]]
invert_tags_modify(only, old_tags, new_tags, current_tags) ==
    [key \in Keys |->
        IF /\ new_tags[key] # Absent /\ new_tags[key] # old_tags[key]
           /\ ~SkipKey(only, key)
           /\ old_tags[key] # Absent
           /\ current_tags[key] = new_tags[key]
        THEN old_tags[key]
        ELSE current_tags[key]]

invert_tags_delete_any(only, old_tags, new_tags, current_tags) ==
    [key \in Keys |->
        IF /\ old_tags[key] # Absent
           /\ ~SkipKey(only, key)
           /\ current_tags[key] = Absent
        THEN old_tags[key]
        ELSE current_tags[key]]
invert_tags_delete(only, old_tags, new_tags, current_tags) ==
    [key \in Keys |->
        IF /\ old_tags[key] # Absent /\ old_tags[key] # new_tags[key]
           /\ ~SkipKey(only, key)
           /\ new_tags[key] = Absent
           /\ current_tags[key] = Absent
        THEN old_tags[key]
        ELSE current_tags[key]]

invert_tags(only, old, new, current) ==
    LET t1 == invert_tags_create(only, old.tag, new.tag, current.tag)
        t2 == invert_tags_modify(only, old.tag, new.tag, t1)
        t3 == invert_tags_delete(only, old.tag, new.tag, t2)
    IN  [current EXCEPT !.tag = t3, !.tagkind = "tuple"]

\* ------------------------------------------------------------------------
\* Inverter: position reconciliation
\* ------------------------------------------------------------------------
invert_node_position_always(old, new, current) ==
    IF old.lat = new.lat /\ old.lon = new.lon
    THEN current
    ELSE [current EXCEPT !.lat = old.lat, !.lon = old.lon]
invert_node_position(old, new, current) ==
    IF old.lat = new.lat /\ old.lon = new.lon
    THEN current
    ELSE IF current.lat # new.lat \/ current.lon # new.lon
    THEN current
    ELSE [current EXCEPT !.lat = old.lat, !.lon = old.lon]

\* ------------------------------------------------------------------------
\* Diff-Patch Engine as seen by the Inverter
\* ------------------------------------------------------------------------
\* The post-conditions dmp() checks before it returns a result
\* (no duplicates, nothing created, nothing common deleted); an empty
\* result is the list [''] and is reported as a failure.
dmp_checks_lossy(old, current, result) ==
    /\ result # <<>>
    /\ NoDup(result)
    /\ Range(result) \ (Range(old) \cup Range(current)) = {}
dmp_checks(old, current, result) ==
    /\ result # <<>>
    /\ NoDup(result)
    /\ Range(result) \ (Range(old) \cup Range(current)) = {}
    /\ (Range(old) \cap Range(current)) \ Range(result) = {}

SeqsOver(S, n) == UNION {[1..k -> S] : k \in 0..n}

\* dmp_retry_reverse(old, new, current): None, or a patched token sequence
\* that passed dmp_checks.  The patch the diff_match_patch library computes
\* is any of the candidates.
dmp_retry_reverse(old, new, current) ==
    {<<>>} \cup
    {r \in SeqsOver(Range(old) \cup Range(current),
                    Cardinality(Range(old) \cup Range(current))) :
        dmp_checks(old, current, r)}

\* ------------------------------------------------------------------------
\* Inverter: ordered-reference reconciliation (way nodes, relation members)
\* ------------------------------------------------------------------------
\* create_diff: the '@ref' values of new that no reference of old carries
create_diff(old, new) ==
    {new.refs[i].ref : i \in 1..Len(new.refs)} \
    {old.refs[i].ref : i \in 1..Len(old.refs)}

\* the "absolute delete" fallback: current's references without create_diff
absolute_delete(old, new, current) ==
    SelectSeq(current.refs, LAMBDA m : m.ref \notin create_diff(old, new))

\* Which branch of _invert_way_nodes/_invert_relation_members is taken.
refs_branch_patch_always(old, new, current) ==
    LET old_t == Dumps(old.refs)
        new_t == Dumps(new.refs)
        cur_t == Dumps(current.refs)
    IN  IF old_t = new_t THEN "unmodified"
        ELSE IF cur_t = new_t THEN "simple"
        ELSE "dmp"
refs_branch(old, new, current) ==
    LET old_t == Dumps(old.refs)
        new_t == Dumps(new.refs)
        cur_t == Dumps(current.refs)
    IN  IF old_t = new_t THEN "unmodified"
        ELSE IF cur_t # new_t /\ Range(old_t) = Range(cur_t) THEN "already"
        ELSE IF cur_t = new_t THEN "simple"
        ELSE "dmp"

\* current['nd'] = old['nd'] raises KeyError when old has no such key
refs_KeyError(old, new, current) ==
    refs_branch(old, new, current) = "simple" /\ old.refkind = "none"

\* Result of _invert_way_nodes/_invert_relation_members for the outcome
\* patch of dmp_retry_reverse (<<>> is None).
invert_refs(old, new, current, patch) ==
    LET b == refs_branch(old, new, current)
    IN  IF b \in {"unmodified", "already"} THEN current
        ELSE IF b = "simple"
        THEN [current EXCEPT !.refs = old.refs, !.refkind = old.refkind]
        ELSE IF patch # <<>>
        THEN [current EXCEPT !.refs = Loads(patch), !.refkind = "tuple"]
        ELSE [current EXCEPT !.refs = absolute_delete(old, new, current),
                             !.refkind = "tuple"]

\* ------------------------------------------------------------------------
\* State
\* ------------------------------------------------------------------------
VARIABLES
    heap,          \* address -> element dict
    only_tags,     \* Inverter._only_tags
    diffs,         \* main(): the per-change-set results of the Reconstructor
    diff,          \* merged_diffs, the argument of invert_diff
    current_map,   \* Inverter._current_map: type -> <<[id, ref], ...>>
    version_map,   \* Inverter._version_map: type -> id -> version (0: unset)
    run_counter,   \* Inverter._run_counter['advanced revert']
    statistics,    \* Inverter.statistics
    warnings,      \* Inverter.warnings
    result,        \* the value invert_diff returns
    cursor,        \* number of entries invert_diff has processed
    calls,         \* log of the loop iterations of invert_diff: their locals
    pc,            \* "merge", "invert", "done", "error"
    heap0,         \* the elements as the Reconstructor returned them
    first_run,     \* what an earlier invocation over the same diff returned
    dmp_state,     \* a call of dmp_retry_reverse: arguments, attempts, result
    overpass,      \* a call of Overpass.get_changeset_elements_history
    parents,       \* a call of Overpass.update_parents
    relations,     \* a call of sort_relations_for_osm_change
    run,           \* a call of main(): its position and what it has done
    retry,         \* a call through the wrapper of retry_exponential
    attempt,       \* a call of Overpass._get_changeset_elements_history
    proxy,         \* proxy_state: the pending requests of a websocket
    ws,            \* web/main.py: the websocket connections of one token
    upload         \* a call of OsmApi.upload_diff

inverter_vars ==
    <<heap, only_tags, diffs, diff, current_map, version_map, run_counter,
      statistics, warnings, result, cursor, calls, pc, heap0, first_run>>

io_vars == <<attempt, proxy, ws, upload>>

vars ==
    <<inverter_vars, dmp_state, overpass, parents, relations, run, retry,
      io_vars>>

\* a component that is not exercised by the specification at hand
Idle == [pc |-> "idle"]
IoIdle == attempt = Idle /\ proxy = Idle /\ ws = Idle /\ upload = Idle

Ids == {1, 2}

\* ------------------------------------------------------------------------
\* merge_and_sort_diffs (osm_revert/main.py)
\* ------------------------------------------------------------------------
RECURSIVE ConcatAll(_, _)
ConcatAll(ds, t) ==
    IF ds = <<>> THEN <<>> ELSE Head(ds)[t] \o ConcatAll(Tail(ds), t)

\* sorted(elements, key=timestamp, reverse=True): stable, newest first
RECURSIVE InsertDesc(_, _)
RECURSIVE InsertOldestFirst(_, _)
InsertOldestFirst(e, s) ==
    IF s = <<>> THEN <<e>>
    ELSE IF Head(s).timestamp <= e.timestamp
         THEN <<Head(s)>> \o InsertOldestFirst(e, Tail(s))
         ELSE <<e>> \o s
InsertDesc(e, s) ==
    IF s = <<>> THEN <<e>>
    ELSE IF Head(s).timestamp >= e.timestamp
         THEN <<Head(s)>> \o InsertDesc(e, Tail(s))
         ELSE <<e>> \o s

RECURSIVE SortedDesc(_)
SortedDesc(s) ==
    IF s = <<>> THEN <<>>
    ELSE InsertDesc(s[Len(s)], SortedDesc(SubSeq(s, 1, Len(s) - 1)))

merge_and_sort_diffs(ds) ==
    IF ds = <<>> THEN <<>>
    ELSE [t \in Types |-> SortedDesc(ConcatAll(ds, t))]

\* the entries in the order invert_diff visits them
RECURSIVE FlatFrom(_, _)
FlatFrom(d, i) ==
    IF i > Len(TypeOrder) THEN <<>>
    ELSE (IF TypeOrder[i] \in DOMAIN d
          THEN [k \in 1..Len(d[TypeOrder[i]]) |->
                   [type |-> TypeOrder[i], entry |-> d[TypeOrder[i]][k]]]
          ELSE <<>>) \o FlatFrom(d, i + 1)
Flat(d) == FlatFrom(d, 1)

\* ------------------------------------------------------------------------
\* Inverter (osm_revert/invert.py)
\* ------------------------------------------------------------------------
\* dict lookup / assignment on one type of _current_map; a dict keeps the
\* position of a key that is assigned again
CmGet(cm, id) ==
    IF \E i \in 1..Len(cm) : cm[i].id = id
    THEN cm[CHOOSE i \in 1..Len(cm) : cm[i].id = id].ref
    ELSE None

CmSet_first(cm, id, ref) ==
    IF \E i \in 1..Len(cm) : cm[i].id = id THEN cm
    ELSE Append(cm, [id |-> id, ref |-> ref])
CmSet(cm, id, ref) ==
    IF \E i \in 1..Len(cm) : cm[i].id = id
    THEN [i \in 1..Len(cm) |->
             IF cm[i].id = id THEN [id |-> id, ref |-> ref] ELSE cm[i]]
    ELSE Append(cm, [id |-> id, ref |-> ref])

set_visible_original(h, target, current) ==
    IF target # None /\ h[target].visorig = "unset"
    THEN [h EXCEPT ![target].visorig = h[current].visible]
    ELSE h

\* deepcopy(last_current): a fresh object with the same content
NewAddr(h) == (CHOOSE a \in DOMAIN h : \A b \in DOMAIN h : b <= a) + 1
deepcopy(h, a) == (NewAddr(h) :> h[a]) @@ h

\* the three sub-reconciliations of an advanced revert, on the value of
\* current (lines 138-151)
advanced_tags(only, old, new, current) ==
    invert_tags(only, old, new,
                [current EXCEPT !.tagkind = ensure_iterable_kind(@)])

advanced_revert_full(only, type, old, new, current, patch) ==
    LET c2 == advanced_tags(only, old, new, current)
    IN  IF type = "node" THEN invert_node_position(old, new, c2)
        ELSE invert_refs(old, new, c2, patch)
advanced_revert(only, type, old, new, current, patch) ==
    LET c2 == advanced_tags(only, old, new, current)
    IN  IF only # {} THEN c2
        ELSE IF type = "node" THEN invert_node_position(old, new, c2)
        ELSE invert_refs(old, new, c2, patch)

\* current_original = deepcopy(current), taken after line 138
current_original(current) ==
    [current EXCEPT !.tagkind = ensure_iterable_kind(@)]

\* true when the advanced revert reaches dmp_retry_reverse
calls_dmp(only, type, old, new, current) ==
    /\ only = {}
    /\ type # "node"
    /\ refs_branch(old, new, current) = "dmp"

\* create (lines 115-124): the entity is tombstoned when it is alive now
create_branch_always(only, current) ==
    IF only # {} THEN "create_skip" ELSE "create"
create_branch(only, current) ==
    IF only # {} THEN "create_skip"
    ELSE IF current.visible = "true" THEN "create" ELSE "create_noop"

\* modify (lines 127-156): simple revert, advanced revert or nothing
modify_branch_any_current(only, new, current) ==
    IF current.version = new.version /\ only = {} THEN "simple" ELSE "advanced"
modify_branch(only, new, current) ==
    IF current.version = new.version /\ only = {} THEN "simple"
    ELSE IF current.visible = "true" THEN "advanced" ELSE "modify_noop"

\* delete (lines 159-167): old is restored when nobody touched the tombstone
delete_branch_always(only, new, current) ==
    IF only # {} THEN "delete_skip" ELSE "delete"
delete_branch(only, new, current) ==
    IF only # {} THEN "delete_skip"
    ELSE IF current.version = new.version THEN "delete" ELSE "delete_noop"

\* The branch _invert_element takes for (old, new, current).
element_branch_total(only, h, oldA, newA, curA) ==
    IF oldA = None
    THEN create_branch(only, h[curA])
    ELSE IF h[oldA].visible = "true" /\ h[newA].visible = "false"
    THEN delete_branch(only, h[newA], h[curA])
    ELSE IF h[oldA].visible = "true"
    THEN modify_branch(only, h[newA], h[curA])
    ELSE create_branch(only, h[curA])
element_branch(only, h, oldA, newA, curA) ==
    IF (oldA = None \/ h[oldA].visible = "false") /\ h[newA].visible = "true"
    THEN create_branch(only, h[curA])
    ELSE IF oldA = None THEN "TypeError"
    ELSE IF h[oldA].visible = "true" /\ h[newA].visible = "true"
    THEN modify_branch(only, h[newA], h[curA])
    ELSE IF h[oldA].visible = "true" /\ h[newA].visible = "false"
    THEN delete_branch(only, h[newA], h[curA])
    ELSE "Exception"

\* _invert_element: the heap and the _current_map of this type after the call
invert_element(only, h, cm, type, id, oldA, newA, curA, patch) ==
    LET b == element_branch(only, h, oldA, newA, curA)
    IN  IF b = "create"
        THEN [heap |-> [h EXCEPT ![curA].visible = "false"],
              cmap |-> CmSet(cm, id, curA), branch |-> b, stored |-> TRUE]
        ELSE IF b \in {"simple", "delete"}
        THEN [heap |-> h, cmap |-> CmSet(cm, id, oldA), branch |-> b,
              stored |-> TRUE]
        ELSE IF b = "advanced"
        THEN IF only = {} /\ type # "node"
                /\ refs_KeyError(h[oldA], h[newA], h[curA])
             THEN [heap |-> [h EXCEPT ![curA] =
                                advanced_tags(only, h[oldA], h[newA], h[curA])],
                   cmap |-> cm, branch |-> "KeyError", stored |-> FALSE]
             ELSE LET c == advanced_revert(only, type, h[oldA], h[newA],
                                           h[curA], patch)
                      changed == c # current_original(h[curA])
                  IN  [heap |-> [h EXCEPT ![curA] = c],
                       cmap |-> IF changed THEN CmSet(cm, id, curA) ELSE cm,
                       branch |-> b, stored |-> changed]
        ELSE [heap |-> h, cmap |-> cm, branch |-> b, stored |-> FALSE]

RaisedBranches == {"TypeError", "Exception", "KeyError"}

\* the element recorded for id in a _current_map of one type, as a value
NoElement ==
    [id |-> 0, visible |-> "absent", version |-> 0, tag |-> NoTags,
     tagkind |-> "none", lat |-> 0, lon |-> 0, refs |-> <<>>,
     refkind |-> "none", visorig |-> "unset"]

Recorded(h, cm, id) == IF CmGet(cm, id) = None THEN NoElement ELSE h[CmGet(cm, id)]

InitStatistics ==
    [fix |-> [t \in Types |-> 0],
     dmp |-> [t \in {"way", "relation"} |-> 0],
     dmp_id |-> [t \in {"way", "relation"} |-> <<>>],
     dmp_fail |-> [t \in {"way", "relation"} |-> 0],
     dmp_fail_id |-> [t \in {"way", "relation"} |-> <<>>],
     joined |-> FALSE]

\* the counters and id lists after an invocation of dmp_retry_reverse for
\* the path or group id: 'dmp:<type>' and 'dmp:<type>:id' when it returned a
\* patch, 'dmp:fail:<type>' and 'dmp:fail:<type>:id' when it returned None
count_dmp_no_id(st, type, id, ok, fail) ==
    [st EXCEPT
       !.dmp = IF ok THEN [@ EXCEPT ![type] = @ + 1] ELSE @,
       !.dmp_id = IF ok THEN [@ EXCEPT ![type] = Append(@, id)] ELSE @,
       !.dmp_fail = IF fail THEN [@ EXCEPT ![type] = @ + 1] ELSE @]
count_dmp(st, type, id, ok, fail) ==
    [st EXCEPT
       !.dmp = IF ok THEN [@ EXCEPT ![type] = @ + 1] ELSE @,
       !.dmp_id = IF ok THEN [@ EXCEPT ![type] = Append(@, id)] ELSE @,
       !.dmp_fail = IF fail THEN [@ EXCEPT ![type] = @ + 1] ELSE @,
       !.dmp_fail_id = IF fail THEN [@ EXCEPT ![type] = Append(@, id)] ELSE @]

\* no invocation before this one
NoRun == [done |-> FALSE, result |-> [t \in Types |-> <<>>], heap |-> <<>>,
          warnings |-> [t \in Types |-> <<>>]]

\* main(): merged_diffs = merge_and_sort_diffs(diffs); diffs[0] is the dict
\* that is merged into and returned
MergeAndSort ==
    /\ pc = "merge"
    /\ diff' = merge_and_sort_diffs(diffs)
    /\ diffs' = IF diffs = <<>> THEN diffs
                ELSE [diffs EXCEPT ![1] = merge_and_sort_diffs(diffs)]
    /\ pc' = "invert"
    /\ UNCHANGED <<heap, only_tags, current_map, version_map, run_counter,
                   statistics, warnings, result, cursor, calls, heap0, first_run>>
    /\ UNCHANGED <<dmp_state, overpass, parents, relations, run, retry,
                   io_vars>>

\* one iteration of the loop of invert_diff (lines 71-88) with the call of
\* _invert_element it makes
InvertEntry ==
    /\ pc = "invert"
    /\ cursor < Len(Flat(diff))
    /\ \E fe \in {Flat(diff)[cursor + 1]} :
       \E last_current \in {CmGet(current_map[fe.type], fe.entry.element_id)} :
       \E curA \in {IF last_current # None THEN NewAddr(heap)
                    ELSE fe.entry.element_current} :
       \E h4 \in {set_visible_original(
                    set_visible_original(
                      set_visible_original(
                        IF last_current # None
                        THEN deepcopy(heap, last_current) ELSE heap,
                        fe.entry.element_old, curA),
                      fe.entry.element_new, curA),
                    curA, curA)} :
       LET type == fe.type
           entry == fe.entry
           id == entry.element_id
           oldA == entry.element_old
           newA == entry.element_new
           old == IF oldA = None THEN NoElement ELSE h4[oldA]
           adv == element_branch(only_tags, h4, oldA, newA, curA) = "advanced"
           dmp_called == adv /\ calls_dmp(only_tags, type, old, h4[newA], h4[curA])
       IN  \E patch \in IF dmp_called
                        THEN dmp_retry_reverse(Dumps(old.refs),
                                               Dumps(h4[newA].refs),
                                               Dumps(h4[curA].refs))
                        ELSE {<<>>} :
           \E r \in {invert_element(only_tags, h4, current_map[type], type,
                                    id, oldA, newA, curA, patch)} :
             LET dmp_ok == dmp_called /\ patch # <<>>
                 dmp_fail == dmp_called /\ patch = <<>>
             IN  /\ heap' = r.heap
                 /\ current_map' = [current_map EXCEPT ![type] = r.cmap]
                 /\ version_map' =
                      IF version_map[type][id] = 0
                      THEN [version_map EXCEPT
                              ![type][id] = heap[entry.element_current].version]
                      ELSE version_map
                 /\ run_counter' = IF adv THEN run_counter + 1 ELSE run_counter
                 /\ statistics' =
                      [count_dmp(statistics, type, h4[newA].id, dmp_ok, dmp_fail)
                         EXCEPT !.fix[type] = IF adv THEN @ + 1 ELSE @]
                 /\ warnings' = IF dmp_fail
                                THEN [warnings EXCEPT ![type] = Append(@, h4[newA].id)]
                                ELSE warnings
                 /\ calls' = Append(calls,
                      [type |-> type, id |-> id,
                       timestamp |-> entry.timestamp,
                       has_old |-> oldA # None,
                       old |-> old, new |-> h4[newA],
                       current |-> h4[curA],
                       entry_current |-> heap[entry.element_current],
                       before |-> IF last_current # None
                                  THEN heap[last_current] ELSE NoElement,
                       carried |-> last_current # None,
                       cur_addr |-> curA,
                       branch |-> r.branch,
                       refs |-> IF adv /\ only_tags = {} /\ type # "node"
                                THEN refs_branch(old, h4[newA], h4[curA])
                                ELSE "none",
                       dmp |-> IF dmp_ok THEN "ok"
                               ELSE IF dmp_fail THEN "fail" ELSE "none",
                       stored |-> r.stored,
                       out |-> r.heap[curA],
                       after |-> Recorded(r.heap, r.cmap, id)])
                 /\ IF r.branch \in RaisedBranches
                    THEN pc' = "error" /\ cursor' = cursor
                    ELSE pc' = "invert" /\ cursor' = cursor + 1
    /\ UNCHANGED <<only_tags, diffs, diff, result, heap0, first_run>>
    /\ UNCHANGED <<dmp_state, overpass, parents, relations, run, retry,
                   io_vars>>

\* the end of invert_diff (lines 90-111)
RECURSIVE FinalizeList(_, _, _)
\* the addresses that stay in the list of one type
FinalizeList(h, cm, i) ==
    IF i > Len(cm) THEN <<>>
    ELSE (IF h[cm[i].ref].visible = "false" /\ h[cm[i].ref].visorig = "false"
          THEN <<>> ELSE <<cm[i].ref>>) \o FinalizeList(h, cm, i + 1)

\* the heap after the loop over one type: versions restored, the marker
\* deleted from the elements that stay
FinalizeHeap_keep_version(h, vm) ==
    [a \in DOMAIN h |->
        IF \E t \in Types : \E i \in 1..Len(current_map[t]) :
              current_map[t][i].ref = a
        THEN [h[a] EXCEPT
                !.visorig = IF h[a].visible = "false" /\ @ = "false"
                            THEN @ ELSE "unset"]
        ELSE h[a]]
FinalizeHeap(h, vm) ==
    [a \in DOMAIN h |->
        IF \E t \in Types : \E i \in 1..Len(current_map[t]) :
              current_map[t][i].ref = a
        THEN LET t == CHOOSE t \in Types : \E i \in 1..Len(current_map[t]) :
                          current_map[t][i].ref = a
             IN  [h[a] EXCEPT
                    !.version = vm[t][h[a].id],
                    !.visorig = IF h[a].visible = "false" /\ @ = "false"
                                THEN @ ELSE "unset"]
        ELSE h[a]]

Finalize ==
    /\ pc = "invert"
    /\ cursor = Len(Flat(diff))
    /\ result' = [t \in Types |-> FinalizeList(heap, current_map[t], 1)]
    /\ heap' = FinalizeHeap(heap, version_map)
    /\ statistics' = [statistics EXCEPT !.joined = TRUE]
    /\ pc' = "done"
    /\ UNCHANGED <<only_tags, diffs, diff, current_map, version_map,
                   run_counter, warnings, cursor, calls, heap0, first_run>>
    /\ UNCHANGED <<dmp_state, overpass, parents, relations, run, retry,
                   io_vars>>

\* ------------------------------------------------------------------------
\* Inputs: what the History Reconstructor hands to main()
\* (Overpass._get_changeset_elements_history, lines 327-355)
\* ------------------------------------------------------------------------
\* The content of one version of an element; a deleted version carries no
\* tags, position or references.
DeadContent ==
    [visible |-> "false", tag |-> NoTags, lat |-> 0, lon |-> 0, refs |-> <<>>]
NodeContent(tag, lat, lon) ==
    [visible |-> "true", tag |-> tag, lat |-> lat, lon |-> lon, refs |-> <<>>]
RefsContent(tag, refs) ==
    [visible |-> "true", tag |-> tag, lat |-> 0, lon |-> 0, refs |-> refs]

Tag1(v) == [k \in Keys |-> IF k = "k1" THEN v ELSE Absent]
Tag2(v1, v2) == [k \in Keys |-> IF k = "k1" THEN v1 ELSE v2]

\* A target element: its type and id, the server history hist (hist[v] is
\* the content of version v), for every version the change set that made
\* it (mark, 0: not a target change set) and, for every change set, the
\* latest version its present-day query saw (seen).  nocreate: a version
\* that follows a deleted one is reported with its deleted old state instead
\* of as a create action without old.
Target(type, id, hist, mark, seen, nocreate) ==
    [type |-> type, id |-> id, hist |-> hist, mark |-> mark, seen |-> seen,
     nocreate |-> nocreate]

\* the transitions to revert, oldest first: target element and version
RECURSIVE PlanOf(_, _)
PlanOf(tg, v) ==
    IF v > Len(tg.hist) THEN <<>>
    ELSE (IF tg.mark[v] > 0 THEN <<[tg |-> tg, v |-> v]>> ELSE <<>>)
         \o PlanOf(tg, v + 1)

RECURSIVE Plan(_)
Plan(tgs) == IF tgs = <<>> THEN <<>> ELSE PlanOf(Head(tgs), 1) \o Plan(Tail(tgs))

\* parse_action: element_old is None for a create action
HasOld(p) ==
    /\ p.v > 1
    /\ p.tg.hist[p.v - 1].visible = "false" => p.tg.nocreate

\* entries of the same change set for the same element share the object
\* of get_current_map; without one, element_current is element_new itself
\* (current_map[element_type].get(element_id, element_new))
SameQuery(P, k) ==
    {j \in 1..Len(P) : /\ P[j].tg.type = P[k].tg.type
                       /\ P[j].tg.id = P[k].tg.id
                       /\ P[j].tg.mark[P[j].v] = P[k].tg.mark[P[k].v]}
SeenBy(p) == p.tg.seen[p.tg.mark[p.v]]
CurrentIsNew(P, k) == \A j \in SameQuery(P, k) : P[j].v = SeenBy(P[j])
SetMin(S) == CHOOSE x \in S : \A y \in S : x <= y

OldAddr(P, k) == IF HasOld(P[k]) THEN 3 * k - 2 ELSE None
NewAddrOf(P, k) == 3 * k - 1
CurAddr(P, k) ==
    IF CurrentIsNew(P, k) THEN NewAddrOf(P, k) ELSE 3 * SetMin(SameQuery(P, k))

PlanHeap(P) ==
    LET dom == UNION {{OldAddr(P, k), NewAddrOf(P, k), CurAddr(P, k)} \ {None} :
                        k \in 1..Len(P)}
    IN  [a \in dom |->
            LET k == (a + 2) \div 3
                tg == P[k].tg
                v == IF a = 3 * k - 2 THEN P[k].v - 1
                     ELSE IF a = 3 * k - 1 THEN P[k].v
                     ELSE SeenBy(P[k])
            IN  Element(tg.id, v, tg.hist[v])]

\* DiffEntry(timestamp, element_id, element_old, element_new, element_current)
DiffEntry(P, k) ==
    [timestamp |-> P[k].v, element_id |-> P[k].tg.id,
     element_old |-> OldAddr(P, k), element_new |-> NewAddrOf(P, k),
     element_current |-> CurAddr(P, k)]

\* the result of one change set: its edits, partition by partition in
\* ascending timestamp order
RECURSIVE InsertAsc(_, _)
InsertAsc(e, s) ==
    IF s = <<>> THEN <<e>>
    ELSE IF Head(s).timestamp <= e.timestamp
         THEN <<Head(s)>> \o InsertAsc(e, Tail(s))
         ELSE <<e>> \o s

RECURSIVE ChangesetEdits(_, _, _, _)
ChangesetEdits(P, c, t, k) ==
    IF k = 0 THEN <<>>
    ELSE IF P[k].tg.type = t /\ P[k].tg.mark[P[k].v] = c
         THEN InsertAsc(DiffEntry(P, k), ChangesetEdits(P, c, t, k - 1))
         ELSE ChangesetEdits(P, c, t, k - 1)

PlanDiffs(P) ==
    [c \in 1..MaxChangesets |->
        [t \in Types |-> ChangesetEdits(P, c, t, Len(P))]]

Histories(C, n) == UNION {[1..k -> C] : k \in 1..n}
\* the change sets are numbered in the order of their first edit
Marks(hist) ==
    {m \in [1..Len(hist) -> 0..MaxChangesets] :
        /\ \E v \in 1..Len(hist) : m[v] > 0
        /\ \A v \in 1..Len(hist) :
              m[v] > 1 => \E w \in 1..(v - 1) : m[w] = m[v] - 1}

\* nocreate only matters when a reverted version follows a deleted one
NoCreateChoices(hist, mark) ==
    IF \E v \in 2..Len(hist) : mark[v] > 0 /\ hist[v - 1].visible = "false"
    THEN BOOLEAN ELSE {FALSE}

\* the last version of its own that change set c made (0: none)
LastOwn(mark, c) ==
    IF \E v \in DOMAIN mark : mark[v] = c
    THEN CHOOSE v \in DOMAIN mark :
            mark[v] = c /\ \A w \in DOMAIN mark : mark[w] = c => w <= v
    ELSE 0

\* what the present-day queries can have seen: the query of a change set
\* ran either after the last version of the history or right after the
\* change set's own last edit; the last version is seen by one of them
Seens(hist, mark) ==
    {s \in [1..MaxChangesets -> 1..Len(hist)] :
        /\ \A c \in 1..MaxChangesets :
              s[c] \in {Len(hist)} \cup ({LastOwn(mark, c)} \ {0})
        /\ \E c \in 1..MaxChangesets : s[c] = Len(hist)}

InitInverter(tgs, only) ==
    /\ \E P \in {Plan(tgs)} :
       \E h \in {PlanHeap(P)} :
          /\ heap = h
          /\ heap0 = h
          /\ diffs = PlanDiffs(P)
    /\ only_tags = only
    /\ diff = <<>>
    /\ current_map = [t \in Types |-> <<>>]
    /\ version_map = [t \in Types |-> [i \in Ids |-> 0]]
    /\ run_counter = 0
    /\ statistics = InitStatistics
    /\ warnings = [t \in Types |-> <<>>]
    /\ result = [t \in Types |-> <<>>]
    /\ cursor = 0
    /\ calls = <<>>
    /\ first_run = NoRun
    /\ pc = "merge"
    /\ dmp_state = Idle
    /\ overpass = Idle
    /\ parents = Idle
    /\ relations = Idle
    /\ run = Idle
    /\ retry = Idle
    /\ IoIdle

\* ------------------------------------------------------------------------
\* Specification of a run of the Inverter over merged change sets
\* ------------------------------------------------------------------------
\* a small set of contents per type
Contents(type) ==
    {DeadContent} \cup
    (IF type = "node"
     THEN {NodeContent(NoTags, 1, 1), NodeContent(Tag1("a"), 1, 2)}
     ELSE IF type = "way"
     THEN {RefsContent(NoTags, <<Nd(1), Nd(2)>>),
           RefsContent(Tag1("a"), <<Nd(1), Nd(2), Nd(3)>>)}
     ELSE {RefsContent(NoTags, <<Member("node", 1, "")>>),
           RefsContent(Tag1("a"), <<Member("node", 1, ""),
                                    Member("way", 1, "outer")>>)})

\* a second element of the same type reverted in the same run
Alive2(type) ==
    IF type = "node" THEN NodeContent(NoTags, 1, 1)
    ELSE IF type = "way" THEN RefsContent(NoTags, <<Nd(1), Nd(2)>>)
    ELSE RefsContent(NoTags, <<Member("node", 1, "")>>)

AllSeen(n) == [c \in 1..MaxChangesets |-> n]

SecondTargets(type) ==
    {<<>>,
     <<Target(type, 2, <<Alive2(type)>>, <<1>>, AllSeen(1), FALSE)>>,
     <<Target(type, 2, <<Alive2(type), DeadContent>>, <<0, 1>>, AllSeen(2),
              FALSE)>>}

\* what else the run has: a second target, an only-tags restriction
Contexts(type) ==
    IF type = "node"
    THEN {<<second, {}>> : second \in SecondTargets(type)}
         \cup {<<<<>>, {"k1"}>>}
    ELSE {<<<<>>, {}>>}

Init ==
    \E type \in Types :
    \E hist \in Histories(Contents(type), MaxVersions) :
    \E mark \in Marks(hist) :
    \E seen \in Seens(hist, mark) :
    \E nc \in NoCreateChoices(hist, mark) :
    \E ctx \in Contexts(type) :
        InitInverter(<<Target(type, 1, hist, mark, seen, nc)>> \o ctx[1],
                     ctx[2])

Next == MergeAndSort \/ InvertEntry \/ Finalize

Spec == Init /\ [][Next]_vars

\* ------------------------------------------------------------------------
\* Runs over one element with many tags (SpecTags) or references (SpecRefs),
\* the reverted versions all made by change set 1
\* ------------------------------------------------------------------------
MarksOne(hist) ==
    {m \in [1..Len(hist) -> {0, 1}] : \E v \in 1..Len(hist) : m[v] = 1}

TagContents ==
    {DeadContent} \cup
    {NodeContent(Tag2(v1, v2), 1, 1) :
        v1 \in {Absent} \cup Vals, v2 \in {Absent, "a"}}

InitTags ==
    \E hist \in Histories(TagContents, MaxRichVersions) :
    \E mark \in MarksOne(hist) :
    \E only \in {{}, {"k1"}} :
        InitInverter(<<Target("node", 1, hist, mark, AllSeen(Len(hist)),
                              FALSE)>>, only)

SpecTags == InitTags /\ [][Next]_vars

WayRefs ==
    {<<Nd(1), Nd(2)>>, <<Nd(2), Nd(1)>>, <<Nd(1), Nd(2), Nd(3)>>,
     <<Nd(1), Nd(3)>>, <<Nd(3), Nd(2), Nd(1)>>, <<Nd(2), Nd(3), Nd(4)>>}

RelationRefs ==
    {<<>>,
     <<Member("node", 1, "")>>,
     <<Member("way", 1, "")>>,
     <<Member("node", 1, ""), Member("way", 1, "")>>,
     <<Member("node", 1, ""), Member("node", 2, "")>>,
     <<Member("node", 2, ""), Member("way", 1, "")>>,
     <<Member("way", 2, ""), Member("node", 1, "r")>>}

RefsContents(type) ==
    {RefsContent(NoTags, r) :
        r \in IF type = "way" THEN WayRefs ELSE RelationRefs}

InitRefs ==
    \E type \in {"way", "relation"} :
    \E hist \in Histories(RefsContents(type), MaxRichVersions) :
    \E mark \in MarksOne(hist) :
        InitInverter(<<Target(type, 1, hist, mark, AllSeen(Len(hist)),
                              FALSE)>>, {})

SpecRefs == InitRefs /\ [][Next]_vars

\* Runs over one path or group that is reordered and edited (SpecReorder)
ReorderContents(type) ==
    {RefsContent(NoTags, r) :
        r \in IF type = "way"
              THEN {<<Nd(1), Nd(2)>>, <<Nd(2), Nd(1)>>, <<Nd(1), Nd(3)>>}
              ELSE {<<Member("node", 1, ""), Member("way", 1, "")>>,
                    <<Member("way", 1, ""), Member("node", 1, "")>>,
                    <<Member("node", 1, ""), Member("node", 2, "")>>}}

InitReorder ==
    \E type \in {"way", "relation"} :
    \E hist \in Histories(ReorderContents(type), MaxRichVersions) :
    \E mark \in MarksOne(hist) :
        InitInverter(<<Target(type, 1, hist, mark, AllSeen(Len(hist)),
                              FALSE)>>, {})

SpecReorder == InitReorder /\ [][Next]_vars

\* Runs over one point that is moved between three positions (SpecPosition)
PositionContents ==
    {NodeContent(NoTags, 1, 1), NodeContent(NoTags, 1, 2),
     NodeContent(Tag1("a"), 2, 1)}

InitPosition ==
    \E hist \in Histories(PositionContents, MaxRichVersions) :
    \E mark \in MarksOne(hist) :
    \E only \in {{}, {"k1"}} :
        InitInverter(<<Target("node", 1, hist, mark, AllSeen(Len(hist)),
                              FALSE)>>, only)

SpecPosition == InitPosition /\ [][Next]_vars

\* ------------------------------------------------------------------------
\* A second invocation over the same DiffEntry collection
\* ------------------------------------------------------------------------
\* the InversionResult as values
ResultValues(h, res) ==
    [t \in Types |-> [i \in 1..Len(res[t]) |-> h[res[t][i]]]]

\* Inverter(only_tags).invert_diff(merged_diffs) once more: a fresh Inverter,
\* the entries and their elements as the first invocation left them
Rerun ==
    /\ pc = "done"
    /\ ~first_run.done
    /\ first_run' = [done |-> TRUE, result |-> ResultValues(heap, result),
                 heap |-> heap, warnings |-> warnings]
    /\ current_map' = [t \in Types |-> <<>>]
    /\ version_map' = [t \in Types |-> [i \in Ids |-> 0]]
    /\ run_counter' = 0
    /\ statistics' = InitStatistics
    /\ warnings' = [t \in Types |-> <<>>]
    /\ result' = [t \in Types |-> <<>>]
    /\ cursor' = 0
    /\ calls' = <<>>
    /\ pc' = "invert"
    /\ UNCHANGED <<heap, only_tags, diffs, diff, heap0>>
    /\ UNCHANGED <<dmp_state, overpass, parents, relations, run, retry,
                   io_vars>>

\* one element, its reverted versions all made by change set 1
InitRerun ==
    \E type \in Types :
    \E hist \in Histories(Contents(type), MaxVersions) :
    \E mark \in MarksOne(hist) :
        InitInverter(<<Target(type, 1, hist, mark, AllSeen(Len(hist)), FALSE)>>, {})

NextRerun == MergeAndSort \/ InvertEntry \/ Finalize \/ Rerun

SpecRerun == InitRerun /\ [][NextRerun]_vars

\* ------------------------------------------------------------------------
\* The Inverter at rest, for the specifications of the other components
\* ------------------------------------------------------------------------
InverterIdle ==
    /\ heap = <<>>
    /\ heap0 = <<>>
    /\ diffs = <<>>
    /\ only_tags = {}
    /\ diff = <<>>
    /\ current_map = [t \in Types |-> <<>>]
    /\ version_map = [t \in Types |-> [i \in Ids |-> 0]]
    /\ run_counter = 0
    /\ statistics = InitStatistics
    /\ warnings = [t \in Types |-> <<>>]
    /\ result = [t \in Types |-> <<>>]
    /\ cursor = 0
    /\ calls = <<>>
    /\ first_run = NoRun
    /\ pc = "idle"

\* ------------------------------------------------------------------------
\* Diff-Patch Engine (osm_revert/dmp_utils.py)
\* ------------------------------------------------------------------------
\* the serialized tokens of the sequences
DmpTokens == {json_dumps(Nd(1)), json_dumps(Nd(2))}
\* the value dmp returns for a failure (Python None; a result list is
\* never empty)
Failure == <<>>
\* the empty string
EmptyLine == <<>>
\* new[::-1]
Reverse(s) == [i \in 1..Len(s) |-> s[Len(s) + 1 - i]]

\* The vendored diff_match_patch library (dmp lines 20-35): the patch that
\* turns new into current, applied to old.  applied is all(result_bools),
\* lines the lines of the patched text.  With old = current the patch
\* reproduces old; otherwise the patch may fail to apply or leave any
\* arrangement of lines of the three texts.
patch_apply(old, new, current) ==
    IF old = current
    THEN {[applied |-> TRUE, lines |-> old]}
    ELSE {[applied |-> FALSE, lines |-> <<>>]} \cup
         {[applied |-> TRUE, lines |-> r] :
            r \in SeqsOver(Range(old) \cup Range(new) \cup Range(current),
                           MaxDmpLen)}

\* result_lines.strip().split('\n') (line 36): the tokens of the patched
\* text; an empty text gives the list with one empty string
split_lines_tail(lines) ==
    IF Len(lines) <= 1 THEN <<EmptyLine>> ELSE Tail(lines)
split_lines(lines) == IF lines = <<>> THEN <<EmptyLine>> ELSE lines

\* dmp(old, new, current) for the library outcome lib (lines 28-56)
dmp(old, current, lib) ==
    IF ~lib.applied THEN Failure
    ELSE IF dmp_checks(old, current, split_lines(lib.lines))
    THEN split_lines(lib.lines)
    ELSE Failure

\* `if result := dmp(old, new, current): return result` (lines 9-10)
after_forward_retry(out) == "reverse"
after_forward(out) == IF out # Failure THEN "returned" ELSE "reverse"

\* dmp_retry_reverse, first attempt (line 9)
DmpForward ==
    /\ dmp_state.pc = "forward"
    /\ \E lib \in patch_apply(dmp_state.old, dmp_state.new, dmp_state.current) :
       \E out \in {dmp(dmp_state.old, dmp_state.current, lib)} :
          dmp_state' = [dmp_state EXCEPT
                          !.tries = Append(@, [lib |-> lib, out |-> out]),
                          !.result = out,
                          !.pc = after_forward(out)]
    /\ UNCHANGED <<inverter_vars, overpass, parents, relations, run, retry,
                   io_vars>>

\* dmp_retry_reverse, second attempt with new reversed (lines 11-12)
DmpReverse ==
    /\ dmp_state.pc = "reverse"
    /\ \E lib \in patch_apply(dmp_state.old, Reverse(dmp_state.new),
                              dmp_state.current) :
       \E out \in {dmp(dmp_state.old, dmp_state.current, lib)} :
          dmp_state' = [dmp_state EXCEPT
                          !.tries = Append(@, [lib |-> lib, out |-> out]),
                          !.result = out,
                          !.pc = "returned"]
    /\ UNCHANGED <<inverter_vars, overpass, parents, relations, run, retry,
                   io_vars>>

InitDmp ==
    /\ InverterIdle
    /\ \E old, new, current \in SeqsOver(DmpTokens, MaxDmpLen) :
          dmp_state = [pc |-> "forward", old |-> old, new |-> new,
                       current |-> current, tries |-> <<>>, result |-> Failure]
    /\ overpass = Idle
    /\ parents = Idle
    /\ relations = Idle
    /\ run = Idle
    /\ retry = Idle
    /\ IoIdle

NextDmp == DmpForward \/ DmpReverse

SpecDmp == InitDmp /\ [][NextDmp]_vars

\* ------------------------------------------------------------------------
\* History Reconstructor: mirrors and partitions (osm_revert/overpass.py)
\* ------------------------------------------------------------------------
\* the error strings _get_changeset_elements_history returns
Error(kind, a, b) == [kind |-> kind, a |-> a, b |-> b]
Stale == Error("updating", 0, 0)
Incomplete(partition_size, query_size) ==
    Error("incomplete", partition_size, query_size)

\* sorted(changeset['partition'].items(), key=timestamp) (line 247)
RECURSIVE sorted_partitions(_)
sorted_partitions_newest_first(P) ==
    [i \in 1..Cardinality(P) |->
        CHOOSE p \in P :
            Cardinality({q \in P : q.timestamp > p.timestamp}) = i - 1]
sorted_partitions(P) ==
    IF P = {} THEN <<>>
    ELSE LET first == CHOOSE p \in P : \A q \in P : p.timestamp <= q.timestamp
         IN  <<first>> \o sorted_partitions(P \ {first})

\* the checks on the response of the partition query (lines 260-267)
partition_verdict_nocount(osm_base, timestamp, partition_size, query_size) ==
    IF osm_base <= timestamp THEN "stale" ELSE "accepted"
partition_verdict(osm_base, timestamp, partition_size, query_size) ==
    IF osm_base <= timestamp THEN "stale"
    ELSE IF partition_size # query_size THEN "incomplete"
    ELSE "accepted"

\* What a mirror can answer for one partition: the partition query raises
\* or returns a document with a data horizon (osm_base) and a number of
\* actions; rest is how the filtered query, the merge and the present-day
\* query of an accepted partition end (lines 269-323).
Responses(p, query_filter) ==
    {[fetch |-> "raise", osm_base |-> 0, size |-> 0, rest |-> "none"]} \cup
    {r \in [fetch : {"ok"},
            osm_base : {p.timestamp - 1, p.timestamp, p.timestamp + 1},
            size : {p.query_size - 1, p.query_size, p.query_size + 1},
            rest : {"none"}] :
        r.osm_base <= p.timestamp \/ r.size # p.query_size} \cup
    {[fetch |-> "ok", osm_base |-> p.timestamp + 1, size |-> p.query_size,
      rest |-> r] :
        r \in IF query_filter
              THEN {"ok", "bad_request", "missing_merge", "bad_merge_version",
                    "raise"}
              ELSE {"ok", "raise"}}

\* the outcome of the loop body (lines 247-325) for one partition: the
\* next partition, an exception or the error string that is returned
Proceed == Error("next", 0, 0)
Raise == Error("raise", 0, 0)
partition_outcome(p, resp) ==
    IF resp.fetch = "raise" THEN Raise
    ELSE LET v == partition_verdict(resp.osm_base, p.timestamp, resp.size,
                                    p.query_size)
         IN  IF v = "stale" THEN Stale
             ELSE IF v = "incomplete" THEN Incomplete(resp.size, p.query_size)
             ELSE IF resp.rest = "ok" THEN Proceed
             ELSE IF resp.rest = "raise" THEN Raise
             ELSE Error(resp.rest, 0, 0)

\* the messages printed when every mirror failed (lines 225-231)
combined_errors(errors) ==
    IF \A i \in 2..Len(errors) : errors[1] = errors[i]
    THEN <<[error |-> errors[1], times |-> Len(errors)]>>
    ELSE [i \in 1..Len(errors) |-> [error |-> errors[i], times |-> 1]]

\* get_changeset_elements_history after a mirror returned an error string
\* (lines 214-233): the next mirror is tried, or None is returned
attempt_failed_giveup(ov, error) ==
    [ov EXCEPT !.errors = Append(@, error),
               !.printed = combined_errors(Append(ov.errors, error)),
               !.ret = "None", !.pc = "returned"]
attempt_failed(ov, error) ==
    IF ov.mirror < ov.mirrors
    THEN [ov EXCEPT !.errors = Append(@, error),
                    !.mirror = @ + 1,
                    !.todo = sorted_partitions(ov.partition),
                    !.pc = "query"]
    ELSE [ov EXCEPT !.errors = Append(@, error),
                    !.printed = combined_errors(Append(ov.errors, error)),
                    !.ret = "None", !.pc = "returned"]

\* one iteration of the partition loop of _get_changeset_elements_history on
\* the current mirror, and what get_changeset_elements_history does when
\* the iteration ends the attempt
QueryPartition ==
    /\ overpass.pc = "query"
    /\ overpass.todo # <<>>
    /\ \E resp \in Responses(Head(overpass.todo), overpass.query_filter) :
       \E out \in {partition_outcome(Head(overpass.todo), resp)} :
       \E logged \in {[overpass EXCEPT
                         !.log = Append(@,
                            [mirror |-> overpass.mirror,
                             timestamp |-> Head(overpass.todo).timestamp,
                             query_size |-> Head(overpass.todo).query_size,
                             resp |-> resp,
                             out |-> out])]} :
          overpass' =
             IF out = Raise
             THEN [logged EXCEPT !.pc = "raised"]
             ELSE IF out = Proceed
             THEN [logged EXCEPT !.todo = Tail(@)]
             ELSE attempt_failed(logged, out)
    /\ UNCHANGED <<inverter_vars, dmp_state, parents, relations, run, retry,
                   io_vars>>

\* the end of a mirror attempt whose partitions were all accepted: the
\* DiffEntries are built and returned (lines 327-355, 220-221)
BuildResult ==
    /\ overpass.pc = "query"
    /\ overpass.todo = <<>>
    /\ overpass' = [overpass EXCEPT !.ret = "dict", !.from = overpass.mirror,
                                    !.pc = "returned"]
    /\ UNCHANGED <<inverter_vars, dmp_state, parents, relations, run, retry,
                   io_vars>>

\* a change set with k partitions: the i-th edit timestamp has i elements
Partitions(k) == {{[timestamp |-> 10 * i, query_size |-> i] : i \in 1..k}}

InitOverpass ==
    /\ InverterIdle
    /\ dmp_state = Idle
    /\ \E n \in 1..MaxMirrors, k \in 1..MaxPartitions, f \in BOOLEAN :
       \E P \in Partitions(k) :
          overpass = [pc |-> "query", mirrors |-> n, mirror |-> 1,
                      partition |-> P, todo |-> sorted_partitions(P),
                      query_filter |-> f, errors |-> <<>>, log |-> <<>>,
                      printed |-> <<>>, ret |-> "pending", from |-> 0]
    /\ parents = Idle
    /\ relations = Idle
    /\ run = Idle
    /\ retry = Idle
    /\ IoIdle

NextOverpass == QueryPartition \/ BuildResult

SpecOverpass == InitOverpass /\ [][NextOverpass]_vars

\* ------------------------------------------------------------------------
\* Parent Consistency Fixer (Overpass.update_parents)
\* ------------------------------------------------------------------------
\* for _ in range(10)
ParentsRecursionLimit == 10

\* a reference {'@type': ..., '@ref': ...}; the nd of a way are node references
RefTo(type, id) == [type |-> type, id |-> id]
RefOf(e) == RefTo(e.type, e.id)

\* an element of the inverted set or of the answer to the parents query
FixerElement(type, id, visible, refs) ==
    [type |-> type, id |-> id, visible |-> visible, refs |-> refs]

\* every element of invert, of the three lists
InvertElements(invert) ==
    UNION {Range(invert[t]) : t \in Types}

\* {e['@id'] for e in invert[type] if e['@visible'] == 'false'}
deleting_ids_of_all(invert) ==
    {RefOf(e) : e \in InvertElements(invert)}
deleting_ids_of(invert) ==
    {RefOf(e) : e \in {x \in InvertElements(invert) : ~x.visible}}

\* way(bn.n);rel(bn.n);rel(bw.w);rel(br.r): the ways and relations whose
\* present state on the server references one of the ids
build_query_parents_by_ids(server, element_ids) ==
    {e \in server : Range(e.refs) \cap element_ids # {}}

\* the answer of the server, ways before relations, each by ascending id
ById(S) ==
    [i \in 1..Cardinality(S) |->
        CHOOSE x \in S : Cardinality({y \in S : y.id < x.id}) = i - 1]

parents_items(data) ==
    ById({e \in data : e.type = "way"}) \o ById({e \in data : e.type = "relation"})

\* next(i for i, v in enumerate(invert[key]) if v['@id'] == id_), 0 if none
IndexOfId(list, id) ==
    IF \E i \in 1..Len(list) : list[i].id = id
    THEN CHOOSE i \in 1..Len(list) :
            /\ list[i].id = id
            /\ \A j \in 1..(i - 1) : list[j].id # id
    ELSE 0

\* invert_map[element_type].get(element['@id'], element)
invert_map_get(invert_map, element) ==
    IF \E x \in invert_map : RefOf(x) = RefOf(element)
    THEN CHOOSE x \in invert_map : RefOf(x) = RefOf(element)
    ELSE element

\* the references that stay (new_nds, new_members); a way left with a single
\* node loses it as well
strip_refs_keep_single(element, deleting_ids) ==
    SelectSeq(element.refs, LAMBDA r : r \notin deleting_ids)
strip_refs(element, deleting_ids) ==
    LET kept == SelectSeq(element.refs, LAMBDA r : r \notin deleting_ids)
    IN IF element.type = "way" /\ Len(kept) = 1 THEN <<>> ELSE kept

\* the parent with its references stripped; without references it is deleted
patched(element, deleting_ids) ==
    LET refs == strip_refs(element, deleting_ids)
    IN [element EXCEPT !.refs = refs,
                       !.visible = IF refs = <<>> THEN FALSE ELSE @]

\* repair mode: the patched parent replaces its entry or is appended
fix_parent_append(st, invert_map, element) ==
    [st EXCEPT !.invert[element.type] = Append(@, element),
               !.counter = @ + 1,
               !.changed = TRUE]
fix_parent(st, invert_map, element) ==
    LET list == st.invert[element.type]
        idx == IndexOfId(list, element.id)
    IN IF \E x \in invert_map : RefOf(x) = RefOf(element)
       THEN [st EXCEPT !.invert[element.type] = [list EXCEPT ![idx] = element],
                       !.changed = TRUE]
       ELSE [st EXCEPT !.invert[element.type] = Append(list, element),
                       !.counter = @ + 1,
                       !.changed = TRUE]

\* prune mode: the deleted children of one type leave invert[key]
prune_key(st, key, ids) ==
    LET list == st.invert[key]
        found == {id \in ids : IndexOfId(list, id) # 0}
    IN [st EXCEPT !.invert[key] = SelectSeq(list, LAMBDA v : v.id \notin found),
                  !.internal_ids = @ \ {RefTo(key, id) : id \in found},
                  !.counter = @ + Cardinality(found)]

prune_children(st, deleting_child_ids) ==
    LET ids(key) == {r.id : r \in {x \in deleting_child_ids : x.type = key}}
        s1 == prune_key(st, "node", ids("node"))
        s2 == prune_key(s1, "way", ids("way"))
        s3 == prune_key(s2, "relation", ids("relation"))
    IN [s3 EXCEPT !.changed = TRUE]

\* the body of "for element in elements" for one parent of the answer
process_parent_any(st, fix_parents, invert_map, deleting_ids, parent) ==
    LET element == invert_map_get(invert_map, parent)
        deleting_child_ids == Range(element.refs) \cap deleting_ids
    IN IF ~element.visible THEN st
       ELSE IF deleting_child_ids = {} THEN st
       ELSE IF fix_parents
            THEN fix_parent(st, invert_map, patched(element, deleting_ids))
            ELSE prune_children(st, deleting_child_ids)

process_parent(st, fix_parents, invert_map, deleting_ids, parent) ==
    IF ~fix_parents /\ RefOf(parent) \in st.internal_ids THEN st
    ELSE LET element == invert_map_get(invert_map, parent)
             deleting_child_ids == Range(element.refs) \cap deleting_ids
         IN IF ~element.visible THEN st
            ELSE IF deleting_child_ids = {} THEN st
            ELSE IF fix_parents
                 THEN fix_parent(st, invert_map, patched(element, deleting_ids))
                 ELSE prune_children(st, deleting_child_ids)

RECURSIVE process_parents(_, _, _, _, _)
process_parents(st, fix_parents, invert_map, deleting_ids, items) ==
    IF items = <<>> THEN st
    ELSE CHOOSE r \in
            {process_parents(s, fix_parents, invert_map, deleting_ids, Tail(items)) :
                s \in {process_parent(st, fix_parents, invert_map,
                                      deleting_ids, Head(items))}} : TRUE

\* where a pass that queried ends: "if not changed: return counter", the
\* next pass, or past the last one "raise RecursionError"
after_pass_early(changed, cycles) ==
    IF ~changed THEN "returned"
    ELSE IF cycles + 1 = ParentsRecursionLimit - 1 THEN "raised"
    ELSE "loop"

after_pass(changed, cycles) ==
    IF ~changed THEN "returned"
    ELSE IF cycles + 1 = ParentsRecursionLimit THEN "raised"
    ELSE "loop"

\* one pass of the loop: nothing to delete returns the counter; otherwise
\* the parents are queried and patched, a pass without a change returns the
\* counter and the pass after the last one raises RecursionError
UpdateParentsCycle ==
    /\ parents.pc = "loop"
    /\ \E deleting_ids \in {deleting_ids_of(parents.invert)} :
       \E st \in {process_parents(
                     [invert |-> parents.invert,
                      internal_ids |-> parents.internal_ids,
                      counter |-> parents.counter,
                      changed |-> FALSE],
                     parents.fix_parents,
                     InvertElements(parents.invert),
                     deleting_ids,
                     parents_items(build_query_parents_by_ids(parents.server,
                                                              deleting_ids)))} :
          parents' =
            IF deleting_ids = {}
            THEN [parents EXCEPT !.pc = "returned", !.ret = parents.counter]
            ELSE [parents EXCEPT
                    !.invert = st.invert,
                    !.internal_ids = st.internal_ids,
                    !.counter = st.counter,
                    !.cycles = @ + 1,
                    !.log = Append(@, [deleting_ids |-> deleting_ids,
                                       before |-> parents.invert,
                                       internal_ids |-> parents.internal_ids]),
                    !.pc = after_pass(st.changed, parents.cycles),
                    !.ret = IF ~st.changed THEN st.counter ELSE @,
                    !.error = IF after_pass(st.changed, parents.cycles) = "raised"
                              THEN "RecursionError" ELSE @]
    /\ UNCHANGED <<inverter_vars, dmp_state, overpass, relations, run, retry,
                   io_vars>>

\* fetch_overpass raises (transport error, bad status): the call ends with it
ParentsQueryRaises ==
    /\ parents.pc = "loop"
    /\ deleting_ids_of(parents.invert) # {}
    /\ parents' = [parents EXCEPT !.pc = "raised", !.error = "fetch",
                                  !.cycles = @ + 1]
    /\ UNCHANGED <<inverter_vars, dmp_state, overpass, relations, run, retry,
                   io_vars>>

\* a set of references as a list: nodes, then ways, then relations, by id
RefRank(r) == 100 * (CHOOSE i \in 1..3 : TypeOrder[i] = r.type) + r.id

RefList(S) ==
    [i \in 1..Cardinality(S) |->
        CHOOSE x \in S : Cardinality({y \in S : RefRank(y) < RefRank(x)}) = i - 1]

\* the states an element can have: none (<<>>) or alive with some of the
\* references of Cands
AliveStates(type, id, Cands) ==
    {<<FixerElement(type, id, TRUE, RefList(S))>> : S \in (SUBSET Cands) \ {{}}}

\* its entries in the inverted set: none, alive, or deleted when the server
\* has the element (on_server is its state there)
InvertStates(type, id, Cands, on_server) ==
    {<<>>} \cup AliveStates(type, id, Cands) \cup
    (IF on_server = <<>> THEN {} ELSE {<<FixerElement(type, id, FALSE, <<>>)>>})

NodeRefs == {RefTo("node", i) : i \in 1..MaxNodes}
Rel1Refs == {RefTo("node", 1), RefTo("way", 1)}
Rel2Refs == {RefTo("way", 1), RefTo("relation", 1)}

\* a tombstoned node under a relation under a relation ..., n relations deep
ChainWorld(n) ==
    [chain |-> n,
     server |-> {FixerElement("relation", i, TRUE,
                              <<IF i = 1 THEN RefTo("node", 1)
                                ELSE RefTo("relation", i - 1)>>) : i \in 1..n},
     invert |-> [node |-> <<FixerElement("node", 1, FALSE, <<>>)>>,
                 way |-> <<>>, relation |-> <<>>]]

\* the first nodes deleted by the revert, after a node the revert restores;
\* one way and two relations, on the server and in the inverted set
SmallWorld(k, sw, sr1, sr2, iw, ir1, ir2) ==
    [chain |-> 0,
     server |-> Range(sw) \cup Range(sr1) \cup Range(sr2),
     invert |-> [node |-> <<FixerElement("node", 0, TRUE, <<>>)>> \o
                          [i \in 1..k |-> FixerElement("node", i, FALSE, <<>>)],
                 way |-> iw,
                 relation |-> ir1 \o ir2]]

\* update_parents(invert, fix_parents) is entered
StartParents(fix_parents, w) ==
    [pc |-> "loop", fix_parents |-> fix_parents,
     chain |-> w.chain, server |-> w.server,
     invert |-> w.invert, invert0 |-> w.invert,
     internal_ids |-> {RefOf(e) : e \in InvertElements(w.invert)},
     counter |-> 0, cycles |-> 0, log |-> <<>>,
     ret |-> 0, error |-> "none"]

InitParents ==
    /\ InverterIdle
    /\ dmp_state = Idle
    /\ overpass = Idle
    /\ \E fix_parents \in BOOLEAN :
          \/ \E n \in 1..MaxChain :
                parents = StartParents(fix_parents, ChainWorld(n))
          \/ \E k \in 0..MaxNodes,
                sw \in {<<>>} \cup AliveStates("way", 1, NodeRefs),
                sr1 \in {<<>>} \cup AliveStates("relation", 1, Rel1Refs),
                sr2 \in {<<>>} \cup AliveStates("relation", 2, Rel2Refs) :
             \E iw \in InvertStates("way", 1, NodeRefs, sw),
                ir1 \in InvertStates("relation", 1, Rel1Refs, sr1),
                ir2 \in InvertStates("relation", 2, Rel2Refs, sr2) :
                parents = StartParents(fix_parents,
                                       SmallWorld(k, sw, sr1, sr2, iw, ir1, ir2))
    /\ relations = Idle
    /\ run = Idle
    /\ retry = Idle
    /\ IoIdle

NextParents == UpdateParentsCycle \/ ParentsQueryRaises

SpecParents == InitParents /\ [][NextParents]_vars

\* the chains alone; main() awaits update_parents, so the coroutine is run
\* until it ends
InitChains ==
    /\ InitParents
    /\ parents.chain > 0

SpecChains == InitChains /\ [][NextParents]_vars /\ WF_vars(NextParents)

\* ------------------------------------------------------------------------
\* Assembler: the order of the relations of an upload (osm_revert/osm.py)
\* ------------------------------------------------------------------------
\* a relation of the inverted set: its id, '@visible' and the '@ref' of its
\* members of type relation
Relation(id, visible, member) == [id |-> id, visible |-> visible, member |-> member]

\* dependency_state as built: per relation, in the order of the input, the
\* ids of the upload that it references
dependency_state_of(rels) ==
    LET change_ids == {rels[i].id : i \in 1..Len(rels)}
    IN [i \in 1..Len(rels) |->
           [rel |-> rels[i], deps |-> rels[i].member \cap change_ids]]

\* the inner loop over dependency_state: rel_id leaves every set of
\* dependencies; the relations left without one move to no_dependencies
released_any(dependency_state, rel_id) ==
    SelectSeq(dependency_state, LAMBDA d : rel_id \in d.deps)

released(dependency_state, rel_id) ==
    SelectSeq(dependency_state, LAMBDA d : d.deps = {rel_id})

waiting(dependency_state, rel_id) ==
    LET freed == {d.rel.id : d \in Range(released(dependency_state, rel_id))}
        left == SelectSeq(dependency_state, LAMBDA d : d.rel.id \notin freed)
    IN [i \in 1..Len(left) |-> [left[i] EXCEPT !.deps = @ \ {rel_id}]]

RelsOf(dependency_state) ==
    [i \in 1..Len(dependency_state) |-> dependency_state[i].rel]

\* while no_dependencies: rel = no_dependencies.pop() ...
RECURSIVE peel(_)
peel(st) ==
    IF st.no_dependencies = <<>> THEN st
    ELSE LET n == Len(st.no_dependencies)
             rel == st.no_dependencies[n]
         IN peel([no_dependencies |->
                      SubSeq(st.no_dependencies, 1, n - 1) \o
                      RelsOf(released(st.dependency_state, rel.id)),
                  dependency_state |-> waiting(st.dependency_state, rel.id),
                  result |-> IF rel.visible THEN Append(st.result, rel)
                             ELSE st.result,
                  hidden |-> IF rel.visible THEN st.hidden
                             ELSE Append(st.hidden, rel)])

\* the state after the loop, from the relations handed in
peeled(rels) ==
    LET ds == dependency_state_of(rels)
    IN peel([no_dependencies |-> RelsOf(SelectSeq(ds, LAMBDA d : d.deps = {})),
             dependency_state |-> SelectSeq(ds, LAMBDA d : d.deps # {}),
             result |-> <<>>, hidden |-> <<>>])

\* the relations still in dependency_state are appended as they are
circular_dropped(st) == <<>>

circular(st) == RelsOf(st.dependency_state)

sort_relations_for_osm_change(rels) ==
    LET st == peeled(rels)
    IN st.result \o Reverse(st.hidden) \o circular(st)

\* context_print(Warning: relation/{id} has {len(deps)} circular dependencies)
circular_warnings(rels) ==
    LET ds == peeled(rels).dependency_state
    IN [i \in 1..Len(ds) |->
           [id |-> ds[i].rel.id, dependencies |-> Cardinality(ds[i].deps)]]

\* build_osm_change for the relations of the diff: sorted, then filed under
\* modify or delete in that order
BuildOsmChange ==
    /\ relations.pc = "diff"
    /\ \E sorted \in {sort_relations_for_osm_change(relations.diff)} :
          relations' = [relations EXCEPT
                          !.pc = "built",
                          !.sorted = sorted,
                          !.warnings = circular_warnings(relations.diff),
                          !.modify = SelectSeq(sorted, LAMBDA r : r.visible),
                          !.delete = SelectSeq(sorted, LAMBDA r : ~r.visible)]
    /\ UNCHANGED <<inverter_vars, dmp_state, overpass, parents, run, retry,
                   io_vars>>

\* the relations 1..n of an upload; their members of type relation are
\* relations of the upload or others (the ids above n)
InitRelations ==
    /\ InverterIdle
    /\ dmp_state = Idle
    /\ overpass = Idle
    /\ parents = Idle
    /\ \E n \in 0..MaxRelations :
       \E visible \in [1..n -> BOOLEAN],
          member \in [1..n -> SUBSET (1..MaxRelations)] :
          relations = [pc |-> "diff",
                       diff |-> [i \in 1..n |-> Relation(i, visible[i], member[i])],
                       sorted |-> <<>>, warnings |-> <<>>,
                       modify |-> <<>>, delete |-> <<>>]
    /\ run = Idle
    /\ retry = Idle
    /\ IoIdle

NextRelations == BuildOsmChange

SpecRelations == InitRelations /\ [][NextRelations]_vars

\* ------------------------------------------------------------------------
\* A run of main() over the requested change sets (osm_revert/main.py)
\* ------------------------------------------------------------------------
\* tuple(sorted(set(changeset_ids)))
RECURSIVE sorted_ids(_)
sorted_ids(S) ==
    IF S = {} THEN <<>>
    ELSE LET lo == CHOOSE x \in S : \A y \in S : x <= y
         IN <<lo>> \o sorted_ids(S \ {lo})

\* what the download of one change set can come to: get_changeset raises;
\* it is a moderator's; it has no elements; get_changeset_elements_history
\* returns the diff, returns None, raises, or returns more than was asked
Downloads ==
    {"changeset_raises", "moderator", "empty", "dict", "none", "raises", "oversized"}

\* how the pass of the loop over changeset_ids ends: with the next change
\* set (exit code 0 for none yet), with "return -1", or with an exception,
\* which main_timer turns into -2
download_result_skip(download) ==
    IF download \in {"empty", "dict", "none"} THEN [ended |-> FALSE, exit_code |-> 0]
    ELSE IF download = "moderator" THEN [ended |-> TRUE, exit_code |-> -1]
    ELSE [ended |-> TRUE, exit_code |-> -2]

download_result(download) ==
    IF download \in {"empty", "dict"} THEN [ended |-> FALSE, exit_code |-> 0]
    ELSE IF download \in {"moderator", "none"} THEN [ended |-> TRUE, exit_code |-> -1]
    ELSE [ended |-> TRUE, exit_code |-> -2]

Ended(r, exit_code) == [r EXCEPT !.pc = "ended", !.exit_code = exit_code]

\* main() up to the loop: the ids, the login and the limit of change sets
StartRun ==
    /\ run.pc = "start"
    /\ \E login \in {"ok", "raises"}, changesets_limit \in 0..MaxChangesets :
          run' = IF run.changeset_ids = <<>> \/ login = "raises"
                 THEN Ended(run, -2)
                 ELSE IF changesets_limit = 0
                         \/ changesets_limit < Cardinality(Range(run.changeset_ids))
                 THEN Ended(run, -1)
                 ELSE [run EXCEPT !.pc = "download",
                                  !.todo = sorted_ids(Range(run.changeset_ids))]
    /\ UNCHANGED <<inverter_vars, dmp_state, overpass, parents, relations, retry,
                   io_vars>>

\* one pass of "for changeset_id in changeset_ids"
DownloadChangeset ==
    /\ run.pc = "download"
    /\ \E download \in Downloads :
          run' = [run EXCEPT
                    !.history = Append(@, [id |-> Head(run.todo),
                                           download |-> download]),
                    !.todo = Tail(@),
                    !.pc = IF download_result(download).ended THEN "ended"
                           ELSE IF Tail(run.todo) = <<>> THEN "revert"
                           ELSE "download",
                    !.exit_code = download_result(download).exit_code]
    /\ UNCHANGED <<inverter_vars, dmp_state, overpass, parents, relations, retry,
                   io_vars>>

\* merge_and_sort_diffs, Inverter.invert_diff and update_parents, then the
\* size of the revert
GenerateRevert ==
    /\ run.pc = "revert"
    /\ \E invert_diff \in {"ok", "raises"}, update_parents \in {"ok", "raises"},
          invert_size \in 0..1 :
          run' = IF invert_diff = "raises"
                 THEN Ended([run EXCEPT !.stages = Append(@, "invert")], -2)
                 ELSE IF update_parents = "raises"
                 THEN Ended([run EXCEPT !.stages = @ \o <<"invert", "update_parents">>], -2)
                 ELSE IF invert_size = 0
                 THEN Ended([run EXCEPT !.stages = @ \o <<"invert", "update_parents">>], 0)
                 ELSE [run EXCEPT !.stages = @ \o <<"invert", "update_parents">>,
                                  !.pc = "save"]
    /\ UNCHANGED <<inverter_vars, dmp_state, overpass, parents, relations, retry,
                   io_vars>>

\* the revert is saved to the .osc file or printed, or uploaded
SaveOrUpload ==
    /\ run.pc = "save"
    /\ \E too_big \in BOOLEAN, upload_diff \in {"id", "none", "raises"} :
          run' = IF run.osc
                 THEN Ended([run EXCEPT !.stages = Append(@, "save"),
                                        !.written = TRUE], 0)
                 ELSE IF too_big THEN Ended(run, -1)
                 ELSE IF upload_diff = "id"
                 THEN Ended([run EXCEPT !.stages = Append(@, "upload"),
                                        !.uploaded = TRUE], 0)
                 ELSE Ended([run EXCEPT !.stages = Append(@, "upload")],
                            IF upload_diff = "none" THEN -1 ELSE -2)
    /\ UNCHANGED <<inverter_vars, dmp_state, overpass, parents, relations, retry,
                   io_vars>>

InitRun ==
    /\ InverterIdle
    /\ dmp_state = Idle
    /\ overpass = Idle
    /\ parents = Idle
    /\ relations = Idle
    /\ retry = Idle
    /\ IoIdle
    /\ \E ids \in SeqsOver(1..MaxChangesets, MaxChangesets), osc \in BOOLEAN :
          run = [pc |-> "start", changeset_ids |-> ids, osc |-> osc,
                 todo |-> <<>>, history |-> <<>>, stages |-> <<>>,
                 exit_code |-> 0, written |-> FALSE, uploaded |-> FALSE]

NextRun == StartRun \/ DownloadChangeset \/ GenerateRevert \/ SaveOrUpload

SpecRun == InitRun /\ [][NextRun]_vars

\* ------------------------------------------------------------------------
\* The retry wrapper of the outbound calls (osm_revert/utils.py)
\* ------------------------------------------------------------------------
\* retry_exponential(timeout=10, *, start=1), in seconds
RetryTimeout == 10
RetryStart == 1
\* min(sleep * (1 + random.random()), 1800)
RetryMaxSleep == 1800

\* how a call of the wrapped function ends.  fetch_overpass returns the
\* parsed document, or the message of a 400 answer when check_bad_request
\* is set; the transport raises (a transient failure) or raise_for_status
\* raises for an error status (permanent: 4xx, transient: 5xx)
Returns == {"document", "bad_request"}
Raises == {"transient", "permanent"}

\* the sleep of the next round, in whole seconds: between sleep and twice
\* sleep, at most 30 minutes
next_sleeps(sleep) ==
    {s \in sleep..(2 * sleep) : s <= RetryMaxSleep}
    \cup (IF 2 * sleep > RetryMaxSleep THEN {RetryMaxSleep} ELSE {})

\* `if (time.perf_counter() + sleep) - ts > timeout_seconds: raise e`
budget_spent(elapsed, sleep) == elapsed + sleep > RetryTimeout

\* one round of "while True" in wrapper: the call takes took seconds and
\* ends with outcome; a return ends the wrapper, an exception ends it when
\* the budget is spent and is followed by a sleep and a new round otherwise
RetryAttempt ==
    /\ retry.pc = "call"
    /\ \E took \in 0..MaxCallTime, outcome \in Returns \cup Raises :
       \E now \in {retry.elapsed + took} :
          IF outcome \in Returns
          THEN retry' = [retry EXCEPT !.pc = "returned", !.result = outcome,
                                      !.elapsed = now, !.attempts = @ + 1]
          ELSE IF budget_spent(now, retry.sleep)
          THEN retry' = [retry EXCEPT
                           !.pc = "raised", !.result = outcome,
                           !.elapsed = now, !.attempts = @ + 1,
                           !.permanent = IF outcome = "permanent" /\ @ = 0
                                         THEN retry.attempts + 1 ELSE @]
          ELSE \E s \in next_sleeps(retry.sleep) :
                  retry' = [retry EXCEPT
                              !.result = outcome,
                              !.elapsed = now + retry.sleep,
                              !.sleep = s,
                              !.attempts = @ + 1,
                              !.permanent = IF outcome = "permanent" /\ @ = 0
                                            THEN retry.attempts + 1 ELSE @]
    /\ UNCHANGED <<inverter_vars, dmp_state, overpass, parents, relations, run,
                   io_vars>>

\* the wrapper is entered: ts = time.perf_counter(); sleep = start
InitRetry ==
    /\ InverterIdle
    /\ dmp_state = Idle
    /\ overpass = Idle
    /\ parents = Idle
    /\ relations = Idle
    /\ run = Idle
    /\ retry = [pc |-> "call", elapsed |-> 0, sleep |-> RetryStart,
                attempts |-> 0, permanent |-> 0, result |-> "none"]
    /\ IoIdle

NextRetry == RetryAttempt

SpecRetry == InitRetry /\ [][NextRetry]_vars

\* ------------------------------------------------------------------------
\* History Reconstructor: one mirror attempt, request by request
\* (Overpass._get_changeset_elements_history, osm_revert/overpass.py)
\* ------------------------------------------------------------------------
\* an <action> of an augmented diff: the type and id of its element, the
\* '@version' of old (0: a create action, which has no old), the '@version'
\* and the '@changeset' of new
Action(type, id, old, new, changeset) ==
    [type |-> type, id |-> id, old |-> old, new |-> new,
     changeset |-> changeset]

\* data_map[t][n['@id']] = (o, n) over partition_action (lines 281-283): the
\* last action of an element stays; 0 when the element has none
data_map_get(partition_action, type, id) ==
    LET at == {i \in 1..Len(partition_action) :
                  /\ partition_action[i].type = type
                  /\ partition_action[i].id = id}
    IN  IF at = {} THEN 0 ELSE CHOOSE i \in at : \A j \in at : j <= i

NoError == Error("none", 0, 0)

\* "cleanup extra nodes" (lines 288-298): a point of another change set or
\* a point that was merged before is passed over
skip_action_no_dedup(a, changeset_id, dedup_node_ids) ==
    a.type = "node" /\ a.changeset # changeset_id
skip_action(a, changeset_id, dedup_node_ids) ==
    /\ a.type = "node"
    /\ a.changeset # changeset_id \/ a.id \in dedup_node_ids

\* the loop over filtered_action (lines 285-309) from action i on: the
\* points of other change sets and the repeated points are skipped, every
\* other action is merged with the unfiltered response
RECURSIVE merge_filtered(_, _, _, _, _, _)
merge_filtered(partition_action, filtered_action, changeset_id, i, dedup_node_ids, edits) ==
    IF i > Len(filtered_action) THEN [error |-> NoError, edits |-> edits]
    ELSE LET a == filtered_action[i]
             idx == data_map_get(partition_action, a.type, a.id)
         IN  IF skip_action(a, changeset_id, dedup_node_ids)
             THEN merge_filtered(partition_action, filtered_action,
                                 changeset_id, i + 1, dedup_node_ids, edits)
             ELSE IF idx = 0
             THEN [error |-> Error("missing_merge", 0, 0), edits |-> edits]
             ELSE IF partition_action[idx].new # a.new
             THEN [error |-> Error("bad_merge_version", 0, 0), edits |-> edits]
             ELSE merge_filtered(partition_action, filtered_action,
                                 changeset_id, i + 1,
                                 IF a.type = "node"
                                 THEN dedup_node_ids \cup {a.id}
                                 ELSE dedup_node_ids,
                                 Append(edits, partition_action[idx]))

\* get_current_map(current_action)[type].get(id): the '@version' of the last
\* action of the element, 0 when it has none
current_map_get(current_action, type, id) ==
    LET at == {i \in 1..Len(current_action) :
                  /\ current_action[i].type = type
                  /\ current_action[i].id = id}
    IN  IF at = {} THEN 0
        ELSE current_action[CHOOSE i \in at : \A j \in at : j <= i].new

\* the DiffEntry of one edit (lines 341-349); the timestamp is the one of
\* its partition
build_entry(edit, current_action) ==
    [type |-> edit.type, id |-> edit.id, old |-> edit.old, new |-> edit.new,
     current |-> IF current_map_get(current_action, edit.type, edit.id) = 0
                 THEN edit.new
                 ELSE current_map_get(current_action, edit.type, edit.id)]

\* The answers of a mirror. A set of actions as a document lists them by
\* type and id.
ActionRank(a) == 1000 * (CHOOSE i \in 1..3 : TypeOrder[i] = a.type)
                 + 100 * a.id + 10 * a.old + a.new
ActionList(S) ==
    [i \in 1..Cardinality(S) |->
        CHOOSE x \in S : Cardinality({y \in S : ActionRank(y) < ActionRank(x)}) = i - 1]

\* the transitions a mirror can report for an element: created as version
\* 1, version 1 to 2, version 2 to 3, or version 1 to 3 (a version in
\* between is not told)
Transitions(ref, changeset_id) ==
    {Action(ref.type, ref.id, 0, 1, changeset_id),
     Action(ref.type, ref.id, 1, 2, changeset_id),
     Action(ref.type, ref.id, 2, 3, changeset_id),
     Action(ref.type, ref.id, 1, 3, changeset_id)}

\* the answers to the transition query: at most one action for each of the
\* elements asked for and for one element that was not asked for
PartitionAnswers(element_ids, extra, changeset_id) ==
    {ActionList(S) :
        S \in {T \in SUBSET UNION {Transitions(r, changeset_id) :
                                      r \in element_ids \cup {extra}} :
                  \A a, b \in T : (a.type = b.type /\ a.id = b.id) => a = b}}

\* the actions an answer to the filtered query is made of: an element
\* asked for or the extra one, at version 2 or 3, a point last edited by
\* the target or by another change set
FilteredActions(element_ids, extra, changeset_id) ==
    {Action(r.type, r.id, 1, new, cs) :
        r \in element_ids \cup {extra}, new \in {2, 3},
        cs \in {changeset_id, changeset_id + 1}}
    \ {a \in [type : {"way", "relation"}, id : Ids \cup {3}, old : {1},
              new : {2, 3}, changeset : {changeset_id + 1}] : TRUE}

\* the answers to the present-day query: the elements edited since, at
\* version 4
CurrentAnswers(element_ids, changeset_id) ==
    {ActionList({Action(r.type, r.id, 3, 4, changeset_id + 1) : r \in S}) :
        S \in SUBSET element_ids}


\* one partition of the change set: its timestamp and the elements edited
\* at that time; extra is an element the mirror may answer with although it
\* was not asked for, filtered_len the longest answer to the filtered query
Partition(timestamp, element_ids, extra, filtered_len) ==
    [timestamp |-> timestamp, element_ids |-> element_ids, extra |-> extra,
     filtered_len |-> filtered_len]

\* a request of the attempt: what is asked and for which partition
Request(kind, timestamp) == [kind |-> kind, timestamp |-> timestamp]

\* the attempt after a request has been sent
requested(at, kind) ==
    [at EXCEPT !.requests = Append(@, Request(kind, Head(at.todo).timestamp))]

\* the attempt ends with an error string (return) or an exception (raise)
attempt_ends(at, how, error) ==
    [at EXCEPT !.pc = how, !.error = error]

\* lines 248-267 and 311-312: the transition query of the next partition
\* and the checks on its answer; without a filter every action is an edit
FetchPartition ==
    /\ attempt.pc = "partition"
    /\ attempt.todo # <<>>
    /\ \E at \in {requested(attempt, "transition")} :
       \/ attempt' = attempt_ends(at, "raised", Error("fetch", 0, 0))
       \/ \E osm_base \in {Head(at.todo).timestamp, Head(at.todo).timestamp + 1},
             partition_action \in PartitionAnswers(Head(at.todo).element_ids,
                                                   Head(at.todo).extra,
                                                   at.changeset_id) :
          \E v \in {partition_verdict(osm_base, Head(at.todo).timestamp,
                                      Len(partition_action),
                                      Cardinality(Head(at.todo).element_ids))} :
             attempt' =
               IF v = "stale" THEN attempt_ends(at, "returned", Stale)
               ELSE IF v = "incomplete"
               THEN attempt_ends(at, "returned",
                       Incomplete(Len(partition_action),
                                  Cardinality(Head(at.todo).element_ids)))
               ELSE IF at.query_filter
               THEN [at EXCEPT !.partition_action = partition_action,
                               !.filtered_action = <<>>,
                               !.pc = "filtered"]
               ELSE [at EXCEPT !.partition_action = partition_action,
                               !.filtered_action = <<>>,
                               !.changeset_edits = @ \o partition_action,
                               !.pc = "current"]
    /\ UNCHANGED <<inverter_vars, dmp_state, overpass, parents, relations, run,
                   retry, proxy, ws, upload>>

\* lines 269-309: the filtered query and the merge of its answer
FetchFiltered ==
    /\ attempt.pc = "filtered"
    /\ \E at \in {requested(attempt, "filtered")} :
       \/ attempt' = attempt_ends(at, "raised", Error("fetch", 0, 0))
       \/ attempt' = attempt_ends(at, "returned", Error("bad_request", 0, 0))
       \/ \E filtered_action \in
                SeqsOver(FilteredActions(Head(at.todo).element_ids,
                                         Head(at.todo).extra, at.changeset_id),
                         Head(at.todo).filtered_len) :
          \E m \in {merge_filtered(at.partition_action, filtered_action,
                                   at.changeset_id, 1, {}, <<>>)} :
             attempt' =
               IF m.error # NoError
               THEN [attempt_ends(at, "returned", m.error) EXCEPT
                       !.filtered_action = filtered_action]
               ELSE [at EXCEPT !.filtered_action = filtered_action,
                               !.changeset_edits = @ \o m.edits,
                               !.pc = "current"]
    /\ UNCHANGED <<inverter_vars, dmp_state, overpass, parents, relations, run,
                   retry, proxy, ws, upload>>

\* lines 314-323: the present-day query of the partition
FetchCurrent ==
    /\ attempt.pc = "current"
    /\ \E at \in {requested(attempt, "current")} :
       \/ attempt' = attempt_ends(at, "raised", Error("fetch", 0, 0))
       \/ \E current_partition_action \in
                CurrentAnswers(Head(at.todo).element_ids, at.changeset_id) :
             attempt' = [at EXCEPT
                           !.current_action = @ \o current_partition_action,
                           !.done = Append(@, Head(at.todo).timestamp),
                           !.todo = Tail(@),
                           !.pc = "partition"]
    /\ UNCHANGED <<inverter_vars, dmp_state, overpass, parents, relations, run,
                   retry, proxy, ws, upload>>

\* lines 325-355: after the last partition the DiffEntries are built and
\* returned
BuildEntries ==
    /\ attempt.pc = "partition"
    /\ attempt.todo = <<>>
    /\ attempt' = [attempt EXCEPT
                     !.result = [i \in 1..Len(attempt.changeset_edits) |->
                                    build_entry(attempt.changeset_edits[i],
                                                attempt.current_action)],
                     !.pc = "dict"]
    /\ UNCHANGED <<inverter_vars, dmp_state, overpass, parents, relations, run,
                   retry, proxy, ws, upload>>

\* the change sets: one partition with a point and a path, or two partitions
\* of one point each
AttemptChangesets ==
    {{Partition(10, {RefTo("node", 1), RefTo("way", 1)}, RefTo("node", 3),
                MaxFiltered)},
     {Partition(20, {RefTo("node", 1)}, RefTo("node", 3), 1),
      Partition(10, {RefTo("node", 2)}, RefTo("node", 3), 1)}}

InitAttempt ==
    /\ InverterIdle
    /\ dmp_state = Idle
    /\ overpass = Idle
    /\ parents = Idle
    /\ relations = Idle
    /\ run = Idle
    /\ retry = Idle
    /\ \E changeset_id \in {1}, query_filter \in BOOLEAN :
       \E P \in AttemptChangesets :
          attempt = [pc |-> "partition",
                     changeset_id |-> changeset_id,
                     query_filter |-> query_filter,
                     partition |-> P,
                     todo |-> sorted_partitions(P),
                     done |-> <<>>,
                     requests |-> <<>>,
                     partition_action |-> <<>>,
                     filtered_action |-> <<>>,
                     changeset_edits |-> <<>>,
                     current_action |-> <<>>,
                     result |-> <<>>,
                     error |-> NoError]
    /\ proxy = Idle
    /\ ws = Idle
    /\ upload = Idle

NextAttempt == FetchPartition \/ FetchFiltered \/ FetchCurrent \/ BuildEntries

SpecAttempt == InitAttempt /\ [][NextAttempt]_vars

\* ------------------------------------------------------------------------
\* Change-set submission (OsmApi.upload_diff, osm_revert/osm.py)
\* ------------------------------------------------------------------------
\* TAG_PREFIX and NO_TAG_PREFIX of config.py, over the keys of the model
TagKeys == {"comment", "host", "id", "revert:id"}
HasTagPrefix(key) == key = "revert:id"
NO_TAG_PREFIX == {"comment", "host"}

\* the values of a tag: falsy, a string, a string above TAG_MAX_LENGTH
TagValues == {"empty", "short", "long"}

\* the first ValueError of lines 167-174, "none" when there is none
reserved_tag(extra_tags) ==
    IF "comment" \in DOMAIN extra_tags THEN "comment"
    ELSE IF \E key \in DOMAIN extra_tags : HasTagPrefix(key) THEN "prefix"
    ELSE "none"

\* the tags of the new change set (lines 170-196): the comment is added, a
\* falsy value drops its tag, a key outside NO_TAG_PREFIX gets the prefix,
\* a long value is trimmed
prefixed(key) == IF key \in NO_TAG_PREFIX THEN key ELSE "revert:" \o key
changeset_tags(extra_tags, comment) ==
    LET all == ("comment" :> comment) @@ extra_tags
    IN  {[k |-> prefixed(key),
          v |-> IF all[key] = "long" THEN "trimmed" ELSE all[key]] :
            key \in {x \in DOMAIN all : all[x] # "empty"}}

\* what upload_diff returns after the close request succeeded (lines
\* 220-231): the id of the new change set, or None
upload_result_any(status_code, changeset_id) == changeset_id
upload_result(status_code, changeset_id) ==
    IF status_code = 409 THEN None
    ELSE IF status_code # 200 THEN None
    ELSE changeset_id

\* a request was sent
sent(up, request) == [up EXCEPT !.requests = Append(@, request)]

\* lines 167-204: the tags are checked and built, PUT changeset/create,
\* raise_for_status
CreateChangeset ==
    /\ upload.pc = "create"
    /\ IF reserved_tag(upload.extra_tags) # "none"
       THEN upload' = [upload EXCEPT !.pc = "raised", !.error = "ValueError"]
       ELSE \E up \in {[sent(upload, "create") EXCEPT
                           !.tags = changeset_tags(upload.extra_tags,
                                                   upload.comment)]} :
               \/ upload' = [up EXCEPT !.pc = "raised", !.error = "transport"]
               \/ \E status_code \in {200, 401} :
                     upload' =
                        IF status_code # 200
                        THEN [up EXCEPT !.pc = "raised", !.error = "status"]
                        ELSE [up EXCEPT !.pc = "upload", !.changeset_id = 1]
    /\ UNCHANGED <<inverter_vars, dmp_state, overpass, parents, relations, run,
                   retry, attempt, proxy, ws>>

\* lines 206-215: the osmChange is built and POSTed; the status is kept
UploadChanges ==
    /\ upload.pc = "upload"
    /\ \E up \in {sent(upload, "upload")} :
          \/ upload' = [up EXCEPT !.pc = "raised", !.error = "transport"]
          \/ \E status_code \in {200, 400, 409} :
                upload' = [up EXCEPT !.pc = "close",
                                     !.status_code = status_code]
    /\ UNCHANGED <<inverter_vars, dmp_state, overpass, parents, relations, run,
                   retry, attempt, proxy, ws>>

\* lines 217-231: PUT changeset/close, raise_for_status, then the result
CloseChangeset ==
    /\ upload.pc = "close"
    /\ \E up \in {sent(upload, "close")} :
          \/ upload' = [up EXCEPT !.pc = "raised", !.error = "transport"]
          \/ \E status_code \in {200, 409} :
                upload' =
                   IF status_code # 200
                   THEN [up EXCEPT !.pc = "raised", !.error = "status"]
                   ELSE [up EXCEPT !.pc = "returned",
                                   !.ret = upload_result(up.status_code,
                                                         up.changeset_id)]
    /\ UNCHANGED <<inverter_vars, dmp_state, overpass, parents, relations, run,
                   retry, attempt, proxy, ws>>

InitUpload ==
    /\ InverterIdle
    /\ dmp_state = Idle
    /\ overpass = Idle
    /\ parents = Idle
    /\ relations = Idle
    /\ run = Idle
    /\ retry = Idle
    /\ attempt = Idle
    /\ proxy = Idle
    /\ ws = Idle
    /\ \E K \in SUBSET TagKeys, comment \in TagValues :
       \E extra_tags \in [K -> TagValues] :
          upload = [pc |-> "create", extra_tags |-> extra_tags,
                    comment |-> comment, tags |-> {}, requests |-> <<>>,
                    changeset_id |-> None, status_code |-> 0, ret |-> None,
                    error |-> "none"]

NextUpload == CreateChangeset \/ UploadChanges \/ CloseChangeset

SpecUpload == InitUpload /\ [][NextUpload]_vars

\* ------------------------------------------------------------------------
\* Websocket admission (web/main.py: websocket, active_ws)
\* ------------------------------------------------------------------------
\* config.py: CONNECTION_LIMIT = int(getenv('CONNECTION_LIMIT', 2))
CONNECTION_LIMIT == 2

\* the access tokens of the sessions; NoToken: a session without oauth_token
Tokens == {"t1", "t2"}
NoToken == "none"

\* asyncio.Semaphore.locked() as the handler asks it (line 142)
semaphore_locked_never(value) == FALSE
semaphore_locked(value) == value = 0

\* Semaphore.acquire() entered by "async with semaphore" (line 146): a free
\* slot is taken at once, without a slot the coroutine waits for a release
acquire(w, c) ==
    IF w.value[w.conn[c].token] > 0
    THEN [w EXCEPT !.value[w.conn[c].token] = @ - 1,
                   !.conn[c].pc = "serving",
                   !.conn[c].served = TRUE]
    ELSE [w EXCEPT !.conn[c].pc = "waiting"]

\* Semaphore.release() on leaving "async with semaphore"
release(w, c) ==
    [w EXCEPT !.value[w.conn[c].token] = @ + 1, !.conn[c].pc = "ended"]

\* line 128: await ws.accept()
Accept ==
    /\ ws.pc = "run"
    /\ \E c \in DOMAIN ws.conn :
          /\ ws.conn[c].pc = "connecting"
          /\ ws' = [ws EXCEPT !.conn[c].pc = "accepted"]
    /\ UNCHANGED <<inverter_vars, dmp_state, overpass, parents, relations, run,
                   retry, attempt, proxy, upload>>

\* lines 130-146, run without suspension after accept() returned: a
\* session without token and a connection above the limit are closed with
\* 1008, any other connection takes a slot and enters the loop
Admit ==
    /\ ws.pc = "run"
    /\ \E c \in DOMAIN ws.conn :
          /\ ws.conn[c].pc = "accepted"
          /\ ws' =
               IF ws.conn[c].token = NoToken
               THEN [ws EXCEPT !.conn[c].pc = "closing",
                               !.conn[c].code = 1008]
               ELSE IF semaphore_locked(ws.value[ws.conn[c].token])
               THEN [ws EXCEPT !.conn[c].pc = "closing",
                               !.conn[c].code = 1008,
                               !.conn[c].rejected = TRUE]
               ELSE acquire(ws, c)
    /\ UNCHANGED <<inverter_vars, dmp_state, overpass, parents, relations, run,
                   retry, attempt, proxy, upload>>

\* await ws.close(1008) returns and the handler with it (lines 131-144)
Rejected ==
    /\ ws.pc = "run"
    /\ \E c \in DOMAIN ws.conn :
          /\ ws.conn[c].pc = "closing"
          /\ ws' = [ws EXCEPT !.conn[c].pc = "closed"]
    /\ UNCHANGED <<inverter_vars, dmp_state, overpass, parents, relations, run,
                   retry, attempt, proxy, upload>>

\* lines 148-151: one message is received, handled and answered
ServeMessage ==
    /\ ws.pc = "run"
    /\ \E c \in DOMAIN ws.conn :
          /\ ws.conn[c].pc = "serving"
          /\ ~ws.conn[c].answered
          /\ ws' = [ws EXCEPT !.conn[c].answered = TRUE]
    /\ UNCHANGED <<inverter_vars, dmp_state, overpass, parents, relations, run,
                   retry, attempt, proxy, upload>>

\* lines 152-153: WebSocketDisconnect ends the loop and the slot is released
Disconnect ==
    /\ ws.pc = "run"
    /\ \E c \in DOMAIN ws.conn :
          /\ ws.conn[c].pc = "serving"
          /\ ws' = release(ws, c)
    /\ UNCHANGED <<inverter_vars, dmp_state, overpass, parents, relations, run,
                   retry, attempt, proxy, upload>>

\* lines 154-156: another exception is captured and the connection is
\* closed with 1011, still inside "async with semaphore"
ServeFails ==
    /\ ws.pc = "run"
    /\ \E c \in DOMAIN ws.conn :
          /\ ws.conn[c].pc = "serving"
          /\ ws' = [ws EXCEPT !.conn[c].pc = "closing_error",
                              !.conn[c].code = 1011]
    /\ UNCHANGED <<inverter_vars, dmp_state, overpass, parents, relations, run,
                   retry, attempt, proxy, upload>>

\* await ws.close(1011, ...) returns or raises: the slot is released
ErrorClosed ==
    /\ ws.pc = "run"
    /\ \E c \in DOMAIN ws.conn :
          /\ ws.conn[c].pc = "closing_error"
          /\ ws' = release(ws, c)
    /\ UNCHANGED <<inverter_vars, dmp_state, overpass, parents, relations, run,
                   retry, attempt, proxy, upload>>

InitWs ==
    /\ InverterIdle
    /\ dmp_state = Idle
    /\ overpass = Idle
    /\ parents = Idle
    /\ relations = Idle
    /\ run = Idle
    /\ retry = Idle
    /\ attempt = Idle
    /\ proxy = Idle
    /\ upload = Idle
    /\ \E token \in [1..MaxConnections -> Tokens \cup {NoToken}] :
          ws = [pc |-> "run",
                conn |-> [c \in 1..MaxConnections |->
                             [token |-> token[c], pc |-> "connecting",
                              code |-> 0, served |-> FALSE,
                              rejected |-> FALSE, answered |-> FALSE]],
                value |-> [t \in Tokens |-> CONNECTION_LIMIT]]

NextWs ==
    \/ Accept \/ Admit \/ Rejected \/ ServeMessage \/ Disconnect
    \/ ServeFails \/ ErrorClosed

SpecWs == InitWs /\ [][NextWs]_vars

\* ------------------------------------------------------------------------
\* Proxy requests (osm_revert/proxy_state.py)
\* ------------------------------------------------------------------------
\* the request ids uuid4() hands out and the websockets
RequestIds == 1..MaxRequests
Websockets == {"w1", "w2"}

\* a Future: "none" before it exists, "pending", or how it was completed;
\* completions counts the calls of set_result, set_exception and cancel
\* that were made on it
FutureDone(r) == r.future \notin {"none", "pending"}
complete(r, how) == [r EXCEPT !.future = how, !.completions = @ + 1]

\* the timeout task: "sleeping" in sleep(timeout), "due" when the sleep is
\* over and the task waits to be resumed, "done", or "cancelled"
TaskDone(r) == r.timeout_task \in {"done", "cancelled"}

\* cleanup_request(request) for a request dict (lines 37-44)
cleanup(px, id) ==
    [px EXCEPT
        !.req[id] = [(IF FutureDone(@) THEN @ ELSE complete(@, "cancelled"))
                        EXCEPT !.timeout_task =
                                  IF TaskDone(px.req[id]) THEN @ ELSE "cancelled"],
        !.active = @ \ {id},
        !.ws_requests[px.req[id].ws] = @ \ {id}]

\* cleanup_request(request_id): the id is looked up first (lines 33-36)
cleanup_request(px, id) ==
    IF id \in px.active THEN cleanup(px, id) ELSE px

\* cleanup_websocket (lines 47-52) over the ids of the websocket
RECURSIVE cleanup_all(_, _)
cleanup_all(px, ids) ==
    IF ids = {} THEN px
    ELSE LET id == CHOOSE x \in ids : \A y \in ids : x <= y
         IN  cleanup_all(cleanup_request(px, id), ids \ {id})

\* line 93: the test that makes handle_proxy_response return at once
response_ignored_when_unknown(px, id) == id \notin px.active
response_ignored(px, id) ==
    id \notin px.active \/ FutureDone(px.req[id])

\* lines 63-85: proxy_request is entered, up to the yield
ProxyRequest ==
    /\ proxy.pc = "run"
    /\ \E id \in RequestIds, w \in Websockets :
          /\ proxy.req[id].future = "none"
          /\ \A j \in RequestIds : j < id => proxy.req[j].future # "none"
          /\ proxy' = [proxy EXCEPT
                         !.req[id] = [@ EXCEPT !.ws = w, !.future = "pending",
                                               !.timeout_task = "sleeping",
                                               !.scope = "inside"],
                         !.active = @ \cup {id},
                         !.ws_requests[w] = @ \cup {id}]
    /\ UNCHANGED <<inverter_vars, dmp_state, overpass, parents, relations, run,
                   retry, attempt, ws, upload>>

\* lines 86-88: the body of the "async with" ends, by return or exception
ScopeExit ==
    /\ proxy.pc = "run"
    /\ \E id \in RequestIds :
          /\ proxy.req[id].scope = "inside"
          /\ proxy' = [cleanup(proxy, id) EXCEPT !.req[id].scope = "exited"]
    /\ UNCHANGED <<inverter_vars, dmp_state, overpass, parents, relations, run,
                   retry, attempt, ws, upload>>

\* handle_proxy_response (lines 91-113) for any id and any message: an
\* error, data above the size limit before or after decompression, data
\* that does not decode (the call raises), or a document
HandleProxyResponse ==
    /\ proxy.pc = "run"
    /\ \E id \in RequestIds,
          message \in {"error", "too_large", "inflates_too_large",
                       "malformed", "document"} :
          proxy' =
             IF response_ignored(proxy, id) THEN proxy
             ELSE IF message = "error"
             THEN [proxy EXCEPT !.req[id] = complete(@, "client_error")]
             ELSE IF message \in {"too_large", "inflates_too_large"}
             THEN [proxy EXCEPT !.req[id] = complete(@, "too_large")]
             ELSE IF message = "malformed" THEN proxy
             ELSE [proxy EXCEPT !.req[id] = complete(@, "result")]
    /\ UNCHANGED <<inverter_vars, dmp_state, overpass, parents, relations, run,
                   retry, attempt, ws, upload>>

\* line 57: the sleep of a timeout task is over
TimerDue ==
    /\ proxy.pc = "run"
    /\ \E id \in RequestIds :
          /\ proxy.req[id].timeout_task = "sleeping"
          /\ proxy' = [proxy EXCEPT !.req[id].timeout_task = "due"]
    /\ UNCHANGED <<inverter_vars, dmp_state, overpass, parents, relations, run,
                   retry, attempt, ws, upload>>

\* lines 58-60: _timeout_handler is resumed after its sleep
TimeoutHandler ==
    /\ proxy.pc = "run"
    /\ \E id \in RequestIds :
          /\ proxy.req[id].timeout_task = "due"
          /\ \E px \in {IF FutureDone(proxy.req[id]) THEN proxy
                        ELSE [proxy EXCEPT !.req[id] = complete(@, "timeout")]} :
                proxy' = [cleanup(px, id) EXCEPT !.req[id].timeout_task = "done"]
    /\ UNCHANGED <<inverter_vars, dmp_state, overpass, parents, relations, run,
                   retry, attempt, ws, upload>>

\* cleanup_websocket(ws) for a websocket that went away
CleanupWebsocket ==
    /\ proxy.pc = "run"
    /\ \E w \in Websockets :
          proxy' = cleanup_all(proxy, proxy.ws_requests[w])
    /\ UNCHANGED <<inverter_vars, dmp_state, overpass, parents, relations, run,
                   retry, attempt, ws, upload>>

InitProxy ==
    /\ InverterIdle
    /\ dmp_state = Idle
    /\ overpass = Idle
    /\ parents = Idle
    /\ relations = Idle
    /\ run = Idle
    /\ retry = Idle
    /\ attempt = Idle
    /\ ws = Idle
    /\ upload = Idle
    /\ proxy = [pc |-> "run",
                req |-> [id \in RequestIds |->
                            [ws |-> "w1", future |-> "none", completions |-> 0,
                             timeout_task |-> "none", scope |-> "outside"]],
                active |-> {},
                ws_requests |-> [w \in Websockets |-> {}]]

NextProxy ==
    \/ ProxyRequest \/ ScopeExit \/ HandleProxyResponse \/ TimerDue
    \/ TimeoutHandler \/ CleanupWebsocket

SpecProxy == InitProxy /\ [][NextProxy]_vars

\* ------------------------------------------------------------------------
\* Properties
\* ------------------------------------------------------------------------
\* the elements of the InversionResult of one type, as values
ResultElements(t) == {heap[result[t][i]] : i \in 1..Len(result[t])}
ResultFor(t, id) == {e \in ResultElements(t) : e.id = id}

\* every DiffEntry handed to main() with its type, and the elements it
\* carries as they were handed in
InputEntries ==
    UNION {{[type |-> t, entry |-> diffs[c][t][i]] : i \in 1..Len(diffs[c][t])} :
           c \in 1..Len(diffs), t \in Types}
EntriesFor(t, id) ==
    {fe \in InputEntries : fe.type = t /\ fe.entry.element_id = id}
OldVisible(fe) ==
    IF fe.entry.element_old = None THEN "absent"
    ELSE heap0[fe.entry.element_old].visible
NewVisible(fe) == heap0[fe.entry.element_new].visible
LegalEntry(fe) ==
    \/ OldVisible(fe) \in {"absent", "false"} /\ NewVisible(fe) = "true"
    \/ OldVisible(fe) = "true" /\ NewVisible(fe) = "true"
    \/ OldVisible(fe) = "true" /\ NewVisible(fe) = "false"

\* the loop iterations so far, and their kind by (old.visible, new.visible)
Calls == 1..Len(calls)
CreateCall(k) ==
    calls[k].old.visible \in {"absent", "false"} /\ calls[k].new.visible = "true"
ModifyCall(k) ==
    calls[k].old.visible = "true" /\ calls[k].new.visible = "true"
DeleteCall(k) ==
    calls[k].old.visible = "true" /\ calls[k].new.visible = "false"
SameElement(j, k) == calls[j].type = calls[k].type /\ calls[j].id = calls[k].id
\* k is the only / the last iteration for its element
SoleFor(k) == \A j \in Calls : SameElement(j, k) => j = k
LastFor(k) == \A j \in Calls : SameElement(j, k) => j <= k
Finished == pc = "done"

\* equal in tags, position, reference sequence and visibility
SameState(a, b) ==
    /\ a.tag = b.tag
    /\ a.lat = b.lat /\ a.lon = b.lon
    /\ a.refs = b.refs
    /\ a.visible = b.visible

\* C1: a create entry reverted without only-tags restriction.  When the
\* current it is reconciled against is alive, the Inverter records that
\* entity tombstoned; when it is tombstoned, the call records nothing.  When
\* the entry is the only one for its id, the InversionResult holds the
\* tombstoned entity in the first case and no entry for the id in the second.
C1_CreateInverted ==
    only_tags = {} =>
        \A k \in Calls : CreateCall(k) =>
            LET c == calls[k]
            IN  /\ c.current.visible = "true" =>
                    /\ c.stored
                    /\ c.after = [c.current EXCEPT !.visible = "false"]
                    /\ (Finished /\ SoleFor(k)) =>
                          \E e \in ResultFor(c.type, c.id) :
                              /\ e.visible = "false"
                              /\ ResultFor(c.type, c.id) = {e}
                /\ c.current.visible = "false" =>
                    /\ ~c.stored
                    /\ c.after = c.before
                    /\ (Finished /\ SoleFor(k)) => ResultFor(c.type, c.id) = {}

C1_Witness ==
    /\ Finished /\ only_tags = {}
    /\ \E k \in Calls :
          /\ CreateCall(k) /\ SoleFor(k)
          /\ calls[k].current.visible = "true"
          /\ \E e \in ResultFor(calls[k].type, calls[k].id) : e.visible = "false"
    /\ \E k \in Calls :
          /\ CreateCall(k) /\ SoleFor(k)
          /\ calls[k].current.visible = "false"

\* C2: a modify entry with current.version = new.version and no only-tags
\* restriction records a state equal to old in tags, position, reference
\* sequence and visibility; when no older entry for the id follows, the
\* InversionResult holds exactly that state for the id.
C2_SimpleRevertIsOld ==
    only_tags = {} =>
        \A k \in Calls :
            (ModifyCall(k) /\ calls[k].current.version = calls[k].new.version) =>
                LET c == calls[k]
                IN  /\ c.stored
                    /\ SameState(c.after, c.old)
                    /\ c.after.id = c.id
                    /\ (Finished /\ LastFor(k)) =>
                          \E e \in ResultFor(c.type, c.id) :
                              /\ SameState(e, c.old)
                              /\ ResultFor(c.type, c.id) = {e}

C2_Witness ==
    /\ Finished /\ only_tags = {}
    /\ \E k \in Calls :
          /\ ModifyCall(k) /\ LastFor(k)
          /\ calls[k].current.version = calls[k].new.version
          /\ ~SameState(calls[k].old, calls[k].new)
          /\ \E e \in ResultFor(calls[k].type, calls[k].id) :
                SameState(e, calls[k].old) /\ e.version # calls[k].old.version

\* the value the advanced revert must leave for a key the edit changed
ExpectedTag(old, new, current, key) ==
    IF current.tag[key] = new.tag[key] THEN old.tag[key] ELSE current.tag[key]
AdvancedCall(k) ==
    /\ ModifyCall(k)
    /\ calls[k].branch = "advanced"
    /\ calls[k].current.version # calls[k].new.version

\* C3 (as stated): in an advanced revert, every tag key the edit changed is
\* set back to old's value (removed when the edit created it, restored when
\* the edit deleted it) iff current holds exactly the value the edit left,
\* and keeps current's value otherwise.
C3_ChangedTags ==
    \A k \in Calls : AdvancedCall(k) =>
        \A key \in Keys :
            calls[k].old.tag[key] # calls[k].new.tag[key] =>
                calls[k].out.tag[key] =
                    ExpectedTag(calls[k].old, calls[k].new, calls[k].current, key)

\* C3 (amended): the same, for every changed tag key that the only-tags
\* restriction, if there is one, names.
C3_ChangedTagsInScope ==
    \A k \in Calls : AdvancedCall(k) =>
        \A key \in Keys :
            (/\ calls[k].old.tag[key] # calls[k].new.tag[key]
             /\ (only_tags = {} \/ key \in only_tags)) =>
                calls[k].out.tag[key] =
                    ExpectedTag(calls[k].old, calls[k].new, calls[k].current, key)

C3_Witness ==
    /\ only_tags = {}
    /\ \E k \in Calls :
          /\ AdvancedCall(k)
          /\ calls[k].old.tag["k1"] # calls[k].new.tag["k1"]
          /\ calls[k].current.tag["k1"] \notin
                {calls[k].old.tag["k1"], calls[k].new.tag["k1"]}
          /\ calls[k].out.tag["k1"] = calls[k].current.tag["k1"]
          /\ calls[k].old.tag["k2"] # calls[k].new.tag["k2"]
          /\ calls[k].current.tag["k2"] = calls[k].new.tag["k2"]
          /\ calls[k].out.tag["k2"] = calls[k].old.tag["k2"]

\* the entity a modify entry is inverted to: old on the simple path, the
\* reconciled current on the advanced path
Inverted(k) == IF calls[k].branch = "simple" THEN calls[k].after ELSE calls[k].out

\* C4: for every modify entry that is inverted and every tag key the edit
\* left alone, the inverted entity has current's value for that key (none
\* if current has none), on the simple and on the advanced path, with and
\* without only-tags restriction.
C4_UntouchedTagsKept ==
    \A k \in Calls :
        (ModifyCall(k) /\ calls[k].branch \in {"simple", "advanced"}) =>
            \A key \in Keys :
                calls[k].old.tag[key] = calls[k].new.tag[key] =>
                    /\ Inverted(k).tag[key] = calls[k].current.tag[key]
                    /\ (Finished /\ LastFor(k) /\ calls[k].stored) =>
                          \A e \in ResultFor(calls[k].type, calls[k].id) :
                              e.tag[key] = calls[k].current.tag[key]

C4_Witness ==
    /\ Finished
    /\ \E k \in Calls :
          /\ ModifyCall(k) /\ calls[k].branch = "advanced" /\ LastFor(k)
          /\ calls[k].stored
          /\ calls[k].old.tag["k1"] # calls[k].new.tag["k1"]
          /\ calls[k].old.tag["k2"] = calls[k].new.tag["k2"]
          /\ calls[k].out.tag["k1"] # calls[k].current.tag["k1"]
          /\ calls[k].current.tag["k2"] # calls[k].old.tag["k2"]
          /\ \E e \in ResultFor(calls[k].type, calls[k].id) :
                e.tag["k2"] = calls[k].current.tag["k2"]

\* C5: a delete entry reverted without only-tags restriction.  With
\* current.version = new.version the Inverter records old, alive, and the
\* InversionResult holds it when no older entry for the id follows; with a
\* different version the call records nothing, and the InversionResult has
\* no entry for the id when the entry is the only one for it.
C5_DeleteInverted ==
    only_tags = {} =>
        \A k \in Calls : DeleteCall(k) =>
            LET c == calls[k]
            IN  /\ c.current.version = c.new.version =>
                    /\ c.stored
                    /\ SameState(c.after, c.old)
                    /\ c.after.visible = "true"
                    /\ (Finished /\ LastFor(k)) =>
                          \E e \in ResultFor(c.type, c.id) :
                              /\ SameState(e, c.old)
                              /\ ResultFor(c.type, c.id) = {e}
                /\ c.current.version # c.new.version =>
                    /\ ~c.stored
                    /\ c.after = c.before
                    /\ (Finished /\ SoleFor(k)) => ResultFor(c.type, c.id) = {}

C5_Witness ==
    /\ Finished /\ only_tags = {}
    /\ \E k \in Calls :
          /\ DeleteCall(k) /\ LastFor(k)
          /\ calls[k].current.version = calls[k].new.version
          /\ \E e \in ResultFor(calls[k].type, calls[k].id) : e.visible = "true"
    /\ \E k \in Calls :
          /\ DeleteCall(k) /\ SoleFor(k)
          /\ calls[k].current.version # calls[k].new.version

EmptyResult == [t \in Types |-> <<>>]

\* C6: an entry whose (old.visible, new.visible) is none of create, modify
\* and delete makes the invocation fail: the run never completes, the call
\* that meets the entry raises, and no InversionResult is returned, however
\* many entries were processed before.
C6_IllegalEntryIsFatal ==
    /\ (\E fe \in InputEntries : ~LegalEntry(fe)) => ~Finished
    /\ \A k \in Calls :
          ~(CreateCall(k) \/ ModifyCall(k) \/ DeleteCall(k)) =>
              /\ pc = "error"
              /\ k = Len(calls)
              /\ calls[k].branch \in {"TypeError", "Exception"}
    /\ pc = "error" => result = EmptyResult

C6_Witness ==
    /\ pc = "error"
    /\ Len(calls) >= 2
    /\ calls[Len(calls)].branch \in {"TypeError", "Exception"}
    /\ \E k \in Calls : calls[k].stored
    /\ result = EmptyResult

\* the state recorded for the element of call k when the call starts
RecordedBefore(k) ==
    LET js == {j \in 1..(k - 1) : SameElement(j, k) /\ calls[j].stored}
    IN  calls[CHOOSE j \in js : \A i \in js : i <= j].after

\* C7: the merged history is ordered newest first, so the entries of one
\* (kind, id) are processed in descending timestamp order; and once an
\* entry has recorded a state for the id, each older entry for the id is
\* reconciled against a fresh copy of the recorded state, not against the
\* current of its own DiffEntry.
C7_NewestFirstCarryForward ==
    /\ pc # "merge" =>
          \A t \in Types : \A i, j \in 1..Len(diff[t]) :
              i < j => diff[t][i].timestamp >= diff[t][j].timestamp
    /\ \A j, k \in Calls :
          (j < k /\ SameElement(j, k)) => calls[j].timestamp >= calls[k].timestamp
    /\ \A k \in Calls :
          IF \E j \in 1..(k - 1) : SameElement(j, k) /\ calls[j].stored
          THEN /\ calls[k].carried
               /\ calls[k].current = RecordedBefore(k)
               /\ calls[k].cur_addr \notin DOMAIN heap0
               /\ \A j \in 1..(k - 1) : calls[j].cur_addr # calls[k].cur_addr
          ELSE /\ ~calls[k].carried
               /\ calls[k].cur_addr \in DOMAIN heap0
               /\ SameState(calls[k].current, calls[k].entry_current)

C7_Witness ==
    \E j, k \in Calls :
        /\ j < k /\ SameElement(j, k)
        /\ calls[j].timestamp > calls[k].timestamp
        /\ calls[j].stored
        /\ calls[k].carried
        /\ ~SameState(calls[k].current, calls[k].entry_current)
        /\ \E c1, c2 \in 1..Len(diffs) : c1 # c2 /\
              \E t \in Types : diffs[c1][t] # <<>> /\ diffs[c2][t] # diffs[c1][t]

\* C8: the InversionResult never contains a tombstoned entity whose
\* present-day state, as every DiffEntry for that id carries it, was
\* already tombstoned.
C8_NoRedelete ==
    Finished =>
        \A t \in Types : \A e \in ResultElements(t) :
            ~(/\ e.visible = "false"
              /\ \A fe \in EntriesFor(t, e.id) :
                    heap0[fe.entry.element_current].visible = "false")

\* the highest present-day version the DiffEntries of one id carry
SeenVersions(t, id) ==
    {heap0[fe.entry.element_current].version : fe \in EntriesFor(t, id)}
LatestSeen(t, id) ==
    CHOOSE v \in SeenVersions(t, id) : \A w \in SeenVersions(t, id) : w <= v

\* C9: every entity of the InversionResult has as its version the highest
\* present-day version that any DiffEntry for its id carries.
C9_LatestVersion ==
    Finished =>
        \A t \in Types : \A e \in ResultElements(t) :
            e.version = LatestSeen(t, e.id)

\* a reference of current that the edit introduced: new has it, old has not
Introduced(old, new, m) ==
    /\ \E i \in 1..Len(new.refs) :
          new.refs[i].type = m.type /\ new.refs[i].ref = m.ref
    /\ ~\E i \in 1..Len(old.refs) :
          old.refs[i].type = m.type /\ old.refs[i].ref = m.ref

\* C10: when the Diff-Patch Engine fails in an advanced revert, the
\* resulting reference sequence is current's, in current's order, without
\* exactly the references that new has and old has not.
C10_FallbackRemovesIntroduced ==
    \A k \in Calls : calls[k].dmp = "fail" =>
        calls[k].out.refs =
            SelectSeq(calls[k].current.refs,
                      LAMBDA m : ~Introduced(calls[k].old, calls[k].new, m))

\* the three post-conditions of a reconcile result
Reconciled(old, current, r) ==
    /\ NoDup(r)
    /\ (Range(old) \cap Range(current)) \subseteq Range(r)
    /\ Range(r) \subseteq (Range(old) \cup Range(current))
DmpReturned == dmp_state.pc = "returned"

\* C11: a sequence that dmp_retry_reverse returns has no duplicate, holds
\* every element that old and current share and no element that neither
\* has; it is the candidate of the last attempt, and every attempt whose
\* candidate breaks one of the three ended in failure.
C11_ReconcilePostconditions ==
    dmp_state.pc # "idle" =>
        /\ \A i \in 1..Len(dmp_state.tries) :
              LET t == dmp_state.tries[i]
              IN  /\ ~(t.lib.applied /\ Reconciled(dmp_state.old,
                                                   dmp_state.current,
                                                   split_lines(t.lib.lines)))
                        => t.out = Failure
                  /\ t.out # Failure => t.out = split_lines(t.lib.lines)
        /\ (DmpReturned /\ dmp_state.result # Failure) =>
              /\ Reconciled(dmp_state.old, dmp_state.current, dmp_state.result)
              /\ dmp_state.result =
                    dmp_state.tries[Len(dmp_state.tries)].out

C11_Witness ==
    /\ DmpReturned
    /\ dmp_state.result # Failure
    /\ dmp_state.old # dmp_state.current
    /\ Len(dmp_state.tries) = 2
    /\ dmp_state.tries[1].lib.applied
    /\ ~NoDup(dmp_state.tries[1].lib.lines)

Queries == 1..Len(overpass.log)
FailedQuery(i) == overpass.log[i].out \notin {Proceed, Raise}
AttemptsOf(m) == {i \in Queries : overpass.log[i].mirror = m}

Accepted(i) == overpass.log[i].out.kind \notin {"updating", "incomplete"}

\* C14 (as stated): a partition response is accepted only if it holds as
\* many transitions as ids were requested; a response that is not accepted
\* makes the attempt end as stale when the data horizon of the mirror is
\* older than the timestamp of the partition, as incomplete otherwise.
C14_Completeness ==
    overpass.pc # "idle" =>
        \A i \in Queries :
            LET q == overpass.log[i]
            IN  q.resp.fetch = "ok" =>
                  /\ Accepted(i) => q.resp.size = q.query_size
                  /\ ~Accepted(i) =>
                        IF q.resp.osm_base < q.timestamp
                        THEN q.out = Stale
                        ELSE q.out = Incomplete(q.resp.size, q.query_size)

\* C14 (amended): the same, the attempt ending as stale when the data
\* horizon of the mirror is not later than the timestamp of the partition.
C14_CompletenessInclusive ==
    overpass.pc # "idle" =>
        \A i \in Queries :
            LET q == overpass.log[i]
            IN  q.resp.fetch = "ok" =>
                  /\ Accepted(i) => q.resp.size = q.query_size
                  /\ ~Accepted(i) =>
                        IF q.resp.osm_base <= q.timestamp
                        THEN q.out = Stale
                        ELSE q.out = Incomplete(q.resp.size, q.query_size)

C14_Witness ==
    /\ \E i \in Queries :
          /\ overpass.log[i].out = Stale
          /\ overpass.log[i].resp.osm_base = overpass.log[i].timestamp
    /\ \E i \in Queries :
          /\ overpass.log[i].out.kind = "incomplete"
          /\ overpass.log[i].resp.size < overpass.log[i].query_size
    /\ \E i \in Queries :
          /\ overpass.log[i].resp.fetch = "ok" /\ Accepted(i)

\* the ways and relations as the upload will see them: the entry of the
\* inverted set when there is one, the state on the server otherwise
EffectiveParents ==
    {e \in InvertElements(parents.invert) : e.type # "node"} \cup
    {e \in parents.server :
        \A x \in InvertElements(parents.invert) : RefOf(x) # RefOf(e)}

DanglingParents ==
    {e \in EffectiveParents :
        e.visible /\ Range(e.refs) \cap deleting_ids_of(parents.invert) # {}}

\* C15: when the Fixer returns normally in repair mode, no alive way or
\* relation, taken from the inverted set when it is there and from the
\* server otherwise, references an element the inverted set deletes.
C15_RepairLeavesNoDangling ==
    (parents.pc = "returned" /\ parents.fix_parents) => DanglingParents = {}

\* the relations of a chain world that the inverted set deletes
ChainTombstoned ==
    {e.id : e \in {x \in Range(parents.invert["relation"]) : ~x.visible}}

ChainResolved ==
    (parents.chain > 0 /\ parents.fix_parents) =>
       /\ parents.pc = "returned" =>
             /\ parents.chain < ParentsRecursionLimit
             /\ ChainTombstoned = 1..parents.chain
       /\ (parents.pc = "raised" /\ parents.error = "RecursionError") =>
             parents.chain >= ParentsRecursionLimit

\* C16: the Fixer ends after at most 10 query-and-patch cycles; on a chain
\* of N nested parents in repair mode it returns only when N < 10, with all
\* N parents deleted in the inverted set, and it raises the recursion error
\* only when N >= 10.
C16_FixerTerminates ==
    /\ [](parents.cycles <= ParentsRecursionLimit /\ ChainResolved)
    /\ <>(parents.pc \in {"returned", "raised"})

C16_Witness ==
    /\ parents.pc = "returned"
    /\ parents.fix_parents
    /\ parents.chain = ParentsRecursionLimit - 1
    /\ parents.cycles = ParentsRecursionLimit
    /\ ChainTombstoned = 1..parents.chain

\* the ids in a set handed to or left by the Fixer
InvertIds(invert) == {RefOf(e) : e \in InvertElements(invert)}

\* the entries the Fixer took out of the set it was handed
Removed == InvertIds(parents.invert0) \ InvertIds(parents.invert)

\* each list is what is left of the list handed in, in its order
RECURSIVE IsSubSeq(_, _)
IsSubSeq(s, t) ==
    IF s = <<>> THEN TRUE
    ELSE IF t = <<>> THEN FALSE
    ELSE IF Head(s) = Head(t) THEN IsSubSeq(Tail(s), Tail(t))
    ELSE IsSubSeq(s, Tail(t))

OnlyRemoves ==
    \A t \in Types : IsSubSeq(parents.invert[t], parents.invert0[t])

\* the deleted entries of the set handed in that a way or relation of the
\* server references without being in the set named by ids
Orphaning(ids) ==
    {x \in deleting_ids_of(parents.invert0) :
        \E p \in parents.server : x \in Range(p.refs) /\ RefOf(p) \notin ids}

\* C17 as stated: in prune mode the Fixer adds and modifies nothing; it
\* removes the deleted entries that a parent outside the original set
\* references, and returns how many it removed.
C17_PruneOnlyRemoves ==
    (parents.pc = "returned" /\ ~parents.fix_parents) =>
       /\ OnlyRemoves
       /\ Removed = Orphaning(InvertIds(parents.invert0))
       /\ parents.ret = Cardinality(Removed)

\* C17, amended: in prune mode the Fixer adds and modifies nothing; it
\* removes the deleted entries that a parent outside the set it leaves
\* (never in it, or itself removed from it) references, and returns how
\* many it removed.
C17_PruneOnlyRemovesCascade ==
    (parents.pc = "returned" /\ ~parents.fix_parents) =>
       /\ OnlyRemoves
       /\ Removed = Orphaning(InvertIds(parents.invert))
       /\ parents.ret = Cardinality(Removed)

\* a deleted way leaves the set for a relation of the server, then a deleted
\* node for that way, while other entries stay
C17_Witness ==
    /\ parents.pc = "returned"
    /\ ~parents.fix_parents
    /\ parents.ret = 2
    /\ Removed = {RefTo("way", 1), RefTo("node", 1)}
    /\ Len(parents.log) = 2
    /\ parents.log[2].deleting_ids = {RefTo("node", 1)}
    /\ parents.invert["node"] # <<>>

\* where a relation stands in the sorted list, 0 if it does not
PositionIn(list, id) ==
    IF \E i \in 1..Len(list) : list[i].id = id
    THEN CHOOSE i \in 1..Len(list) : list[i].id = id
    ELSE 0

DiffIds == {relations.diff[i].id : i \in 1..Len(relations.diff)}

\* the relations of the upload that rel references
DepsOf(rel) == rel.member \cap DiffIds

\* rel reaches id through members of the upload
RECURSIVE ReachesIn(_, _, _)
ReachesIn(from, id, steps) ==
    IF steps = 0 THEN FALSE
    ELSE \/ id \in from
         \/ ReachesIn(UNION {DepsOf(r) : r \in {x \in Range(relations.diff) : x.id \in from}},
                      id, steps - 1)

Acyclic ==
    \A r \in Range(relations.diff) : ~ReachesIn(DepsOf(r), r.id, Len(relations.diff))

\* C18 as stated: without a reference cycle, every relation is emitted
\* after all the relations of the upload that it references.
C18_DependenciesFirst ==
    (relations.pc = "built" /\ Acyclic) =>
       \A r \in Range(relations.diff) : \A d \in DepsOf(r) :
          PositionIn(relations.sorted, d) < PositionIn(relations.sorted, r.id)

\* C18, amended: without a reference cycle, every alive relation is emitted
\* after the alive relations of the upload that it references; the deleted
\* relations follow the alive ones, each before the deleted relations that
\* it references.
C18_AliveDependenciesFirst ==
    (relations.pc = "built" /\ Acyclic) =>
       \A r \in Range(relations.diff) :
          /\ PositionIn(relations.sorted, r.id) > 0
          /\ \A d \in Range(relations.diff) :
                /\ (d.id \in DepsOf(r) /\ r.visible /\ d.visible) =>
                      PositionIn(relations.sorted, d.id) < PositionIn(relations.sorted, r.id)
                /\ (d.id \in DepsOf(r) /\ ~r.visible /\ ~d.visible) =>
                      PositionIn(relations.sorted, r.id) < PositionIn(relations.sorted, d.id)
                /\ (r.visible /\ ~d.visible) =>
                      PositionIn(relations.sorted, r.id) < PositionIn(relations.sorted, d.id)

\* an alive relation that references two alive relations of the upload
C18_Witness ==
    /\ relations.pc = "built"
    /\ Acyclic
    /\ \E r \in Range(relations.diff) :
          /\ r.visible
          /\ Cardinality(DepsOf(r)) = 2
          /\ \A d \in Range(relations.diff) : d.id \in DepsOf(r) => d.visible

\* rel is on a reference cycle, or references one directly or through others
OnCycle(rel) == ReachesIn(DepsOf(rel), rel.id, Len(relations.diff))

InCyclicRemainder(rel) ==
    \E c \in Range(relations.diff) :
       /\ OnCycle(c)
       /\ (c.id = rel.id \/ ReachesIn(DepsOf(rel), c.id, Len(relations.diff)))

\* C19: for any relations, with reference cycles or not, the sort ends
\* without an error and returns every relation exactly once; the relations
\* left in the cyclic remainder, and only they, have a warning each.
C19_CyclesTolerated ==
    relations.pc = "built" =>
       /\ Len(relations.sorted) = Len(relations.diff)
       /\ Range(relations.sorted) = Range(relations.diff)
       /\ \A r \in Range(relations.diff) :
             Cardinality({i \in 1..Len(relations.warnings) :
                             relations.warnings[i].id = r.id})
                = (IF InCyclicRemainder(r) THEN 1 ELSE 0)
       /\ \A i \in 1..Len(relations.warnings) :
             /\ relations.warnings[i].id \in DiffIds
             /\ relations.warnings[i].dependencies > 0

\* two relations that reference each other and one that references itself
C19_Witness ==
    /\ relations.pc = "built"
    /\ Len(relations.warnings) = 3
    /\ \E a, b, c \in Range(relations.diff) :
          /\ a.id # b.id
          /\ a.id \in DepsOf(b) /\ b.id \in DepsOf(a)
          /\ DepsOf(c) = {c.id}

\* the change sets whose history could not be reconstructed
FailedHistory ==
    {i \in 1..Len(run.history) : run.history[i].download \in {"none", "raises"}}

\* C20: inversion, parent fixing, saving and upload start only when the
\* history of every requested change set was reconstructed (a change set
\* without elements has none to reconstruct); a run one of whose
\* reconstructions failed or raised ends with a failure code and has
\* written and uploaded nothing.
C20_AllOrNothing ==
    /\ (run.stages # <<>> \/ run.written \/ run.uploaded) =>
          /\ {run.history[i].id : i \in 1..Len(run.history)} = Range(run.changeset_ids)
          /\ \A i \in 1..Len(run.history) : run.history[i].download \in {"dict", "empty"}
    /\ FailedHistory # {} =>
          /\ run.pc = "ended"
          /\ run.exit_code \in {-1, -2}
          /\ run.stages = <<>>
          /\ ~run.written /\ ~run.uploaded

\* the second of two change sets has no history: the run ends with -1
C20_Witness ==
    /\ run.pc = "ended"
    /\ Len(run.history) = 2
    /\ run.history[1].download = "dict"
    /\ run.history[2].download = "none"
    /\ run.exit_code = -1
    /\ run.stages = <<>>

\* C21: a second invocation with a fresh Inverter over the collection that
\* a first invocation was given returns the same InversionResult, and the
\* first invocation leaves the elements of every entry as it found them.
C21_Rerunnable ==
    /\ pc = "done" =>
          \A a \in DOMAIN heap0 : heap[a] = heap0[a]
    /\ (pc = "done" /\ first_run.done) =>
          ResultValues(heap, result) = first_run.result

\* an advanced revert that ran the ordered-reference reconciliation on a
\* path or group whose sequence the edit changed
RefsCall(k) ==
    /\ AdvancedCall(k)
    /\ calls[k].refs # "none"
    /\ Dumps(calls[k].old.refs) # Dumps(calls[k].new.refs)
SameRefSet(a, b) == Range(Dumps(a.refs)) = Range(Dumps(b.refs))

\* C23 (as stated): in the ordered-reference reconciliation of a path or
\* group whose sequence the edit changed, whenever current's sequence has
\* the same set of references as old's, the entity's reference sequence is
\* left exactly as it is in current.
C23_SameSetSkipped ==
    \A k \in Calls :
        (RefsCall(k) /\ SameRefSet(calls[k].current, calls[k].old)) =>
            calls[k].out.refs = calls[k].current.refs

\* C23 (amended): the same, whenever current's sequence differs from new's
\* and has the same set of references as old's; the Diff-Patch Engine is
\* not invoked.
C23_SameSetSkippedUnlessNew ==
    \A k \in Calls :
        (/\ RefsCall(k)
         /\ SameRefSet(calls[k].current, calls[k].old)
         /\ Dumps(calls[k].current.refs) # Dumps(calls[k].new.refs)) =>
            /\ calls[k].out.refs = calls[k].current.refs
            /\ calls[k].out.refkind = calls[k].current.refkind
            /\ calls[k].dmp = "none"

C23_Witness ==
    \E k \in Calls :
        /\ RefsCall(k)
        /\ SameRefSet(calls[k].current, calls[k].old)
        /\ Dumps(calls[k].current.refs) # Dumps(calls[k].new.refs)
        /\ calls[k].current.refs # calls[k].old.refs
        /\ calls[k].out.refs = calls[k].current.refs

\* the reconciled entity has the tags, the position and the reference
\* sequence that current had before the reconciliation
NothingChanged(k) ==
    /\ calls[k].out.tag = calls[k].current.tag
    /\ calls[k].out.lat = calls[k].current.lat
    /\ calls[k].out.lon = calls[k].current.lon
    /\ calls[k].out.refs = calls[k].current.refs

\* C24: an advanced revert whose three sub-reconciliations change nothing
\* records no entry for the entity, and the entity is absent from the
\* InversionResult when no other entry of the run is about it.
C24_NoOpDropped ==
    \A k \in Calls :
        (AdvancedCall(k) /\ NothingChanged(k)) =>
            /\ ~calls[k].stored
            /\ (Finished /\ SoleFor(k)) =>
                  ResultFor(calls[k].type, calls[k].id) = {}

\* an advanced revert of a point
PointCall(k) == AdvancedCall(k) /\ calls[k].type = "node"
Position(e) == <<e.lat, e.lon>>
\* the position the three cases of the position reconciliation give
ExpectedPosition(old, new, current) ==
    IF Position(old) = Position(new) THEN Position(current)
    ELSE IF Position(current) = Position(new) THEN Position(old)
    ELSE Position(current)

\* C25 (as stated): in an advanced revert of a point the inverted position
\* is current's when the edit did not move the point, old's when the edit
\* moved it and current is where the edit put it, and current's when the
\* edit moved it and current is elsewhere.
C25_Position ==
    \A k \in Calls : PointCall(k) =>
        Position(calls[k].out) =
            ExpectedPosition(calls[k].old, calls[k].new, calls[k].current)

\* C25 (amended): the same for a revert without only-tags restriction; with
\* the restriction the inverted position is current's in all three cases.
C25_PositionUnrestricted ==
    \A k \in Calls : PointCall(k) =>
        Position(calls[k].out) =
            IF only_tags = {}
            THEN ExpectedPosition(calls[k].old, calls[k].new, calls[k].current)
            ELSE Position(calls[k].current)

C25_Witness ==
    /\ only_tags = {}
    /\ \E k \in Calls :
          /\ PointCall(k)
          /\ Position(calls[k].old) # Position(calls[k].new)
          /\ Position(calls[k].current) \notin
                {Position(calls[k].new), Position(calls[k].old)}
          /\ Position(calls[k].out) = Position(calls[k].current)

\* the iterations of invert_diff that invoked the Diff-Patch Engine for an
\* entity of type t, with the given outcome
DmpCalls(t, outcome) ==
    {k \in Calls : calls[k].type = t /\ calls[k].dmp = outcome}

C27_RetryOnce ==
    dmp_state.pc # "idle" =>
        /\ Len(dmp_state.tries) <= 2
        /\ dmp_state.pc = "forward" <=> dmp_state.tries = <<>>
        /\ dmp_state.pc = "reverse" =>
              Len(dmp_state.tries) = 1 /\ dmp_state.tries[1].out = Failure
        /\ Len(dmp_state.tries) = 2 =>
              /\ dmp_state.tries[1].out = Failure
              /\ dmp_state.tries[2].lib \in
                    patch_apply(dmp_state.old, Reverse(dmp_state.new),
                                dmp_state.current)
        /\ (DmpReturned /\ dmp_state.tries[1].out # Failure) =>
              /\ Len(dmp_state.tries) = 1
              /\ dmp_state.result = dmp_state.tries[1].out
        /\ (DmpReturned /\ dmp_state.result = Failure) =>
              /\ Len(dmp_state.tries) = 2
              /\ dmp_state.tries[1].out = Failure
              /\ dmp_state.tries[2].out = Failure

C27_Witness ==
    /\ DmpReturned
    /\ dmp_state.result = Failure
    /\ Len(dmp_state.tries) = 2
    /\ dmp_state.tries[1].lib.applied
    /\ ~dmp_state.tries[2].lib.applied

\* the inverted set as pass i of the Fixer left it
AfterPass(i) ==
    IF i < Len(parents.log) THEN parents.log[i + 1].before ELSE parents.invert
\* the parents that pass i changed and merged into the inverted set: the
\* entries it appended and the entries it replaced
MergedIn(i) ==
    {RefOf(e) : e \in InvertElements(AfterPass(i)) \
                      InvertElements(parents.log[i].before)}
RECURSIVE MergedUpTo(_)
MergedUpTo(i) ==
    IF i = 0 THEN 0 ELSE MergedUpTo(i - 1) + Cardinality(MergedIn(i))

\* C28: in repair mode the count the Fixer returns is the number of parents
\* it changed and merged into the inverted set, the parents that already
\* were in the set and were replaced included.
C28_CountsMerged ==
    (parents.pc = "returned" /\ parents.fix_parents) =>
        parents.ret = MergedUpTo(Len(parents.log))

\* the entries of the inverted set inv for the entity ref
EntriesOf(inv, ref) == {e \in InvertElements(inv) : RefOf(e) = ref}
\* the parents the structural-parents query of pass i returned, each as the
\* Fixer took it: its entry in the inverted set when it had one
QueriedIn(i) ==
    {invert_map_get(InvertElements(parents.log[i].before), p) :
        p \in build_query_parents_by_ids(parents.server,
                                         parents.log[i].deleting_ids)}
KeptRefs(e, i) ==
    SelectSeq(e.refs, LAMBDA r : r \notin parents.log[i].deleting_ids)

\* C29: in repair mode, an alive parent that references a to-be-deleted id
\* gets the sequence without every reference to a to-be-deleted id (matched
\* by kind and id), the other references in their order; a path left with
\* exactly one reference is emptied; a parent whose sequence becomes empty
\* is tombstoned; a parent already tombstoned is left as it is.
C29_RepairStrips ==
    (parents.pc # "idle" /\ parents.fix_parents) =>
        \A i \in 1..Len(parents.log) : \A e \in QueriedIn(i) :
            IF ~e.visible
            THEN EntriesOf(AfterPass(i), RefOf(e)) = {e}
            ELSE Range(e.refs) \cap parents.log[i].deleting_ids # {} =>
                    \E a \in EntriesOf(AfterPass(i), RefOf(e)) :
                        /\ EntriesOf(AfterPass(i), RefOf(e)) = {a}
                        /\ a.refs = IF e.type = "way" /\ Len(KeptRefs(e, i)) = 1
                                    THEN <<>> ELSE KeptRefs(e, i)
                        /\ a.visible = (a.refs # <<>>)

C29_Witness ==
    /\ parents.pc = "returned"
    /\ parents.fix_parents
    /\ \E i \in 1..Len(parents.log) :
          /\ \E e \in QueriedIn(i) :
                /\ e.type = "way" /\ e.visible
                /\ Len(KeptRefs(e, i)) = 1
                /\ \E a \in EntriesOf(AfterPass(i), RefOf(e)) : ~a.visible
          /\ \E e \in QueriedIn(i) :
                /\ e.type = "relation" /\ e.visible
                /\ KeptRefs(e, i) \notin {<<>>, e.refs}
                /\ \E a \in EntriesOf(AfterPass(i), RefOf(e)) :
                      a.visible /\ a.refs = KeptRefs(e, i)
          /\ \E e \in QueriedIn(i) : ~e.visible

NoTombstone(inv) == \A e \in InvertElements(inv) : e.visible

\* C30: when the inverted set given to the Fixer has no tombstoned entity,
\* the Fixer returns count 0 without a structural-parents query (no pass
\* gets as far as the query, and the call does not end with an error of
\* one) and leaves the inverted set as it was.
C30_NothingToDelete ==
    (parents.pc # "idle" /\ NoTombstone(parents.invert0)) =>
        /\ parents.log = <<>>
        /\ parents.cycles = 0
        /\ parents.pc \in {"loop", "returned"}
        /\ parents.invert = parents.invert0
        /\ parents.pc = "returned" => parents.ret = 0
        /\ ~ENABLED ParentsQueryRaises

C30_Witness ==
    /\ parents.pc = "returned"
    /\ NoTombstone(parents.invert0)
    /\ parents.invert0["way"] # <<>>
    /\ parents.invert0["relation"] # <<>>
    /\ build_query_parents_by_ids(
          parents.server, {RefOf(e) : e \in InvertElements(parents.invert0)}) # {}
    /\ parents.ret = 0

\* C22: in the retry wrapper a transient failure is retried while the
\* backoff budget lasts, and a permanent (4xx) failure is raised to the
\* caller at once: no attempt follows it.
C22_PermanentShortCircuits ==
    retry.pc # "idle" =>
        /\ retry.permanent # 0 =>
              retry.pc = "raised" /\ retry.attempts = retry.permanent
        /\ (retry.pc = "raised" /\ retry.result = "transient") =>
              budget_spent(retry.elapsed, retry.sleep)

\* the iterations of invert_diff for the entity of iteration k
CallsFor(k) == {j \in Calls : SameElement(j, k)}
\* the entries for the entity of k are two or more consecutive
\* modifications, the newest of them made the present-day version, and
\* every entry carries that present-day state
ConsecutiveModifications(k) ==
    /\ Cardinality(CallsFor(k)) >= 2
    /\ Cardinality(CallsFor(k)) = Cardinality(EntriesFor(calls[k].type, calls[k].id))
    /\ \A j \in CallsFor(k) :
          /\ ModifyCall(j)
          /\ calls[j].new.version = calls[j].old.version + 1
          /\ calls[j].entry_current.version = calls[k].entry_current.version
          /\ \/ calls[j].new.version = calls[j].entry_current.version
             \/ \E i \in CallsFor(k) : calls[i].old.version = calls[j].new.version
          /\ \A i \in CallsFor(k) :
                calls[i].new.version = calls[j].new.version => i = j
    /\ \E j \in CallsFor(k) :
          /\ calls[j].new.version = calls[j].entry_current.version
          /\ SameState(calls[j].new, calls[j].entry_current)
\* the oldest of the entries for the entity of k
OldestFor(k) ==
    CHOOSE j \in CallsFor(k) :
        \A i \in CallsFor(k) : calls[j].old.version <= calls[i].old.version

\* C34 (as stated): when a run reverts k >= 2 consecutive modifications of
\* one entity and nobody edited the entity afterwards, the InversionResult
\* holds for the id the state before the oldest of them, with the
\* present-day version.
C34_ChainCollapses ==
    Finished =>
        \A k \in Calls : ConsecutiveModifications(k) =>
            \E e \in ResultFor(calls[k].type, calls[k].id) :
                /\ ResultFor(calls[k].type, calls[k].id) = {e}
                /\ SameState(e, calls[OldestFor(k)].old)
                /\ e.version = calls[k].entry_current.version

\* C34 (amended): without an only-tags restriction, when a run reverts
\* k >= 2 consecutive modifications of one entity and nobody edited the
\* entity afterwards, the InversionResult holds for the id the state before
\* the oldest of them, with the present-day version; with a restriction only
\* the restricted tags are taken from the older states.
C34_ChainCollapsesUnrestricted ==
    (Finished /\ only_tags = {}) =>
        \A k \in Calls : ConsecutiveModifications(k) =>
            \E e \in ResultFor(calls[k].type, calls[k].id) :
                /\ ResultFor(calls[k].type, calls[k].id) = {e}
                /\ SameState(e, calls[OldestFor(k)].old)
                /\ e.version = calls[k].entry_current.version
\* a finished unrestricted run that reverted two consecutive modifications of
\* one entity whose oldest state differs from the state in between
C34_Witness ==
    /\ Finished
    /\ only_tags = {}
    /\ \E k \in Calls :
          /\ ConsecutiveModifications(k)
          /\ \E j \in CallsFor(k) :
                /\ j # OldestFor(k)
                /\ ~SameState(calls[j].old, calls[OldestFor(k)].old)
          /\ \E e \in ResultFor(calls[k].type, calls[k].id) :
                SameState(e, calls[OldestFor(k)].old)

\* iteration k is a modify entry that reads its own current (no element is
\* carried for the id), a tombstone with a version other than new's, which
\* no entry of the run made (someone else deleted the entity)
DeletedByOthers(k) ==
    /\ ModifyCall(k)
    /\ ~calls[k].carried
    /\ calls[k].entry_current.visible = "false"
    /\ calls[k].entry_current.version # calls[k].new.version
    /\ \A fe \in EntriesFor(calls[k].type, calls[k].id) :
          heap0[fe.entry.element_new].version # calls[k].entry_current.version

\* C35: for a modify entry whose present-day state (the entry's current, no
\* element being carried for the id) is tombstoned with a version different
\* from new's, the Inverter records nothing for the
\* entity: the iteration stores no element and, when the run is over and
\* every entry for the id carried that same present-day state, the id is
\* absent from the InversionResult (neither resurrected nor deleted).
C35_DeletedByOthersUntouched ==
    \A k \in Calls : DeletedByOthers(k) =>
        /\ calls[k].branch = "modify_noop"
        /\ ~calls[k].stored
        /\ (/\ Finished
            /\ \A j \in CallsFor(k) :
                  calls[j].entry_current.version = calls[k].entry_current.version)
           => ResultFor(calls[k].type, calls[k].id) = {}
\* a finished run with such an entry next to an older entry for the same id,
\* and nothing in the result for the id
C35_Witness ==
    /\ Finished
    /\ \E k \in Calls :
          /\ DeletedByOthers(k)
          /\ ~calls[k].stored
          /\ Cardinality(CallsFor(k)) >= 2
          /\ \A j \in CallsFor(k) :
                calls[j].entry_current.version = calls[k].entry_current.version
          /\ ResultFor(calls[k].type, calls[k].id) = {}

\* e equals the present-day state c in everything a tag restriction leaves
\* alone: visibility, position, reference sequence and the tag keys outside
\* the restriction
SameOutside(only, e, c) ==
    /\ e.visible = c.visible
    /\ e.lat = c.lat /\ e.lon = c.lon
    /\ e.refs = c.refs
    /\ \A key \in Keys \ only : e.tag[key] = c.tag[key]

UniqueIds(list) ==
    \A i, j \in 1..Len(list) : list[i].id = list[j].id => i = j
\* the elements of the InversionResult of one type, in the order of the list
ResultList(t) == [i \in 1..Len(result[t]) |-> heap[result[t][i]]]
\* a parent of the set before pass i that the pass replaced by its repair
ReplacedIn(i) ==
    {p \in InvertElements(parents.log[i].before) :
        \E q \in InvertElements(AfterPass(i)) : RefOf(q) = RefOf(p) /\ q # p}
\* a parent the pass i added to the set
AppendedIn(i) ==
    {q \in InvertElements(AfterPass(i)) :
        \A p \in InvertElements(parents.log[i].before) : RefOf(q) # RefOf(p)}

\* C37: in the inverted set each (kind, id) appears at most once, in the
\* output of the Inverter and after every cycle of the Fixer in both modes.
C37_UniqueIds ==
    /\ Finished => \A t \in Types : UniqueIds(ResultList(t))
    /\ parents.pc # "idle" =>
          /\ \A t \in Types : UniqueIds(parents.invert[t])
          /\ \A i \in 1..Len(parents.log) :
                \A t \in Types : UniqueIds(AfterPass(i)[t])
\* a repair pass that replaced a parent of the set and appended another one
C37_Witness ==
    /\ parents.pc # "idle"
    /\ parents.fix_parents
    /\ \E i \in 1..Len(parents.log) :
          ReplacedIn(i) # {} /\ AppendedIn(i) # {}

\* C31: every DiffEntry of a successful reconstruction result whose old
\* state is present has new.version = old.version + 1, so that a mirror
\* answer with another transition never yields a successful result.
C31_VersionStep ==
    attempt.pc = "dict" =>
        \A i \in 1..Len(attempt.result) :
            attempt.result[i].old # 0 =>
                attempt.result[i].new = attempt.result[i].old + 1

\* the actions of an answer to the filtered query that are accepted: every
\* path and group, and the first occurrence of each point edited by the
\* target change set
AcceptedIn(filtered_action, changeset_id) ==
    {i \in 1..Len(filtered_action) :
        \/ filtered_action[i].type # "node"
        \/ /\ filtered_action[i].changeset = changeset_id
           /\ \A j \in 1..(i - 1) :
                 ~ /\ filtered_action[j].type = "node"
                   /\ filtered_action[j].id = filtered_action[i].id
                   /\ filtered_action[j].changeset = changeset_id}
\* the actions of the unfiltered answer for the element of a
UnfilteredFor(partition_action, a) ==
    {u \in Range(partition_action) : u.type = a.type /\ u.id = a.id}
\* an accepted action whose element the unfiltered answer lacks or has at
\* another new version
Disagrees(partition_action, a) ==
    \A u \in UnfilteredFor(partition_action, a) : u.new # a.new
\* the unfiltered actions of the accepted actions, in the order of the
\* filtered answer
RECURSIVE MergedEdits(_, _, _, _)
MergedEdits(partition_action, filtered_action, changeset_id, i) ==
    IF i > Len(filtered_action) THEN <<>>
    ELSE (IF i \in AcceptedIn(filtered_action, changeset_id)
          THEN <<CHOOSE u \in UnfilteredFor(partition_action, filtered_action[i]) :
                    TRUE>>
          ELSE <<>>)
         \o MergedEdits(partition_action, filtered_action, changeset_id, i + 1)

\* a step that receives the answer to the filtered query and merges it
MergeStep ==
    (attempt.pc = "filtered" /\ attempt'.filtered_action # <<>>) =>
        LET fa == attempt'.filtered_action
            pa == attempt.partition_action
            acc == AcceptedIn(fa, attempt.changeset_id)
        IN  IF \E i \in acc : Disagrees(pa, fa[i])
            THEN /\ attempt'.pc = "returned"
                 /\ attempt'.error.kind \in {"missing_merge", "bad_merge_version"}
                 /\ attempt'.result = <<>>
            ELSE /\ attempt'.pc = "current"
                 /\ attempt'.changeset_edits =
                       attempt.changeset_edits
                       \o MergedEdits(pa, fa, attempt.changeset_id, 1)
\* the step that builds the DiffEntries
EntriesStep ==
    attempt'.pc = "dict" =>
        /\ Len(attempt'.result) = Len(attempt.changeset_edits)
        /\ \A i \in 1..Len(attempt'.result) :
              /\ attempt'.result[i].type = attempt.changeset_edits[i].type
              /\ attempt'.result[i].id = attempt.changeset_edits[i].id
              /\ attempt'.result[i].old = attempt.changeset_edits[i].old
              /\ attempt'.result[i].new = attempt.changeset_edits[i].new
\* C32: with a scoping filter, when the filtered query has answered, the
\* attempt fails as incomplete whenever an accepted element is missing from
\* the unfiltered answer of the partition or has another new version there;
\* otherwise the accepted elements yield, in order and once per point, one
\* edit each carrying the unfiltered answer's old and new, and the result
\* has one DiffEntry per edit with that old and new.
C32_FilteredMerge == [][MergeStep /\ EntriesStep]_vars
\* a filtered answer that names the same point of the target change set
\* twice, with an old version other than the unfiltered answer's, was merged
\* into one edit that carries the unfiltered old
C32_Witness ==
    /\ attempt.pc = "current"
    /\ attempt.query_filter
    /\ Len(attempt.filtered_action) = 2
    /\ attempt.filtered_action[1] = attempt.filtered_action[2]
    /\ attempt.filtered_action[1].type = "node"
    /\ attempt.filtered_action[1].changeset = attempt.changeset_id
    /\ Len(attempt.changeset_edits) = 1
    /\ attempt.changeset_edits[1].old # attempt.filtered_action[1].old
    /\ attempt.changeset_edits[1].id = attempt.filtered_action[1].id

\* the timestamps of the partitions of the change set, ascending
AscendingTimes(P) ==
    [i \in 1..Cardinality(P) |->
        CHOOSE t \in {p.timestamp : p \in P} :
            Cardinality({p \in P : p.timestamp < t}) = i - 1]
\* the requests of one partition, in order
PartitionRequests(timestamp, query_filter) ==
    <<Request("transition", timestamp)>>
    \o (IF query_filter THEN <<Request("filtered", timestamp)>> ELSE <<>>)
    \o <<Request("current", timestamp)>>
\* the requests of an attempt that meets no error
RECURSIVE AllRequests(_, _)
AllRequests(times, query_filter) ==
    IF times = <<>> THEN <<>>
    ELSE PartitionRequests(Head(times), query_filter)
         \o AllRequests(Tail(times), query_filter)
AttemptFailed == attempt.pc \in {"returned", "raised"}

\* C33: within one mirror attempt the partitions are handled in ascending
\* timestamp order and the requests of a partition are issued in the order
\* transition query, filtered query (only with a filter), present-day
\* query; once a step has reported an error no further request is issued
\* and no DiffEntry is returned.
C33_RequestOrder ==
    attempt.pc # "idle" =>
        LET all == AllRequests(AscendingTimes(attempt.partition),
                               attempt.query_filter)
        IN  /\ Len(attempt.requests) <= Len(all)
            /\ attempt.requests = SubSeq(all, 1, Len(attempt.requests))
            /\ attempt.pc = "dict" => attempt.requests = all
            /\ AttemptFailed =>
                  /\ attempt.result = <<>>
                  /\ ~ENABLED (FetchPartition \/ FetchFiltered \/ FetchCurrent
                               \/ BuildEntries)
\* an attempt with a filter over two partitions that failed at the filtered
\* query of the second one, after five requests
C33_Witness ==
    /\ AttemptFailed
    /\ attempt.query_filter
    /\ Cardinality(attempt.partition) = 2
    /\ Len(attempt.requests) = 5
    /\ attempt.requests[5].kind = "filtered"
    /\ attempt.requests[1].timestamp < attempt.requests[5].timestamp
    /\ attempt.result = <<>>

\* C40: in upload_diff the requests are issued in the order create, upload,
\* close; once the upload has returned an HTTP status, whatever it is, the
\* close request is the next thing issued; the id of the new change set is
\* returned only when the upload status is 200, otherwise the result is
\* absent.
C40_UploadOrder ==
    upload.pc # "idle" =>
        /\ Len(upload.requests) <= 3
        /\ upload.requests =
              SubSeq(<<"create", "upload", "close">>, 1, Len(upload.requests))
        /\ upload.status_code # 0 =>
              \/ upload.pc = "close" /\ ENABLED CloseChangeset
              \/ Len(upload.requests) = 3
        /\ upload.pc = "returned" =>
              /\ Len(upload.requests) = 3
              /\ upload.status_code = 200 => upload.ret = upload.changeset_id
              /\ upload.status_code # 200 => upload.ret = None
        /\ upload.ret # None =>
              upload.pc = "returned" /\ upload.status_code = 200
\* the upload was refused with a conflict, the change set was closed all
\* the same and nothing was returned
C40_Witness ==
    /\ upload.pc = "returned"
    /\ upload.status_code = 409
    /\ upload.requests = <<"create", "upload", "close">>
    /\ upload.changeset_id # None
    /\ upload.ret = None

\* the connections of a token that hold a slot
Inside(token) ==
    {c \in DOMAIN ws.conn :
        /\ ws.conn[c].token = token
        /\ ws.conn[c].pc \in {"serving", "closing_error"}}

\* C39: for each access token at most CONNECTION_LIMIT connections are
\* inside the serving loop; a connection that arrives while the limit is
\* reached is closed with code 1008 and is never served or queued; the slot
\* of a served connection is free again when the connection has ended, by
\* disconnect or by error.
C39_ConnectionLimit ==
    ws.pc # "idle" =>
        /\ \A token \in Tokens :
              /\ Cardinality(Inside(token)) <= CONNECTION_LIMIT
              /\ ws.value[token] = CONNECTION_LIMIT - Cardinality(Inside(token))
        /\ \A c \in DOMAIN ws.conn :
              /\ ws.conn[c].pc # "waiting"
              /\ ws.conn[c].rejected =>
                    /\ ws.conn[c].code = 1008
                    /\ ~ws.conn[c].served
                    /\ ws.conn[c].pc \in {"closing", "closed"}
              /\ ws.conn[c].pc = "serving" => ws.conn[c].token \in Tokens
\* of three connections of a token one was turned away with 1008 and is
\* closed, one has ended after an error and gave its slot back, and one
\* still holds a slot
C39_Witness ==
    /\ ws.pc # "idle"
    /\ \E token \in Tokens : \E c \in DOMAIN ws.conn :
          /\ ws.conn[c].token = token
          /\ ws.conn[c].rejected
          /\ ws.conn[c].pc = "closed"
          /\ \E d \in DOMAIN ws.conn :
                /\ ws.conn[d].token = token
                /\ ws.conn[d].pc = "ended"
                /\ ws.conn[d].code = 1011
          /\ ws.value[token] = 1

\* the future of every request was completed at most once
CompletedOnce ==
    \A id \in RequestIds :
        /\ proxy.req[id].completions <= 1
        /\ proxy.req[id].completions = 1 <=> FutureDone(proxy.req[id])
\* a completed future keeps its outcome; a response completes the future of
\* a registered, pending request only; the timeout error is set on a pending
\* future only
CompletionStep ==
    \A id \in RequestIds :
        /\ FutureDone(proxy.req[id]) =>
              proxy'.req[id].future = proxy.req[id].future
        /\ (/\ proxy'.req[id].future \in
                  {"result", "client_error", "too_large", "timeout"}
            /\ proxy'.req[id].future # proxy.req[id].future) =>
              id \in proxy.active /\ proxy.req[id].future = "pending"
\* C38: under any interleaving of response delivery, timeout, scope exit and
\* websocket cleanup the future of a proxy request is completed at most
\* once: a response has no effect for an id that is unknown, completed,
\* timed out or cleaned up, and the timeout handler sets the timeout error
\* only on a future that is not done.
C38_CompletedOnce ==
    /\ [](proxy.pc # "idle" => CompletedOnce)
    /\ [][proxy.pc # "idle" => CompletionStep]_vars
\* every way a future ends is met: one request got its result and left its
\* scope, the other timed out, and both are unregistered
C38_Witness ==
    /\ proxy.pc # "idle"
    /\ proxy.active = {}
    /\ \E id \in RequestIds :
          /\ proxy.req[id].future = "result"
          /\ proxy.req[id].scope = "exited"
          /\ proxy.req[id].timeout_task = "cancelled"
    /\ \E id \in RequestIds :
          /\ proxy.req[id].future = "timeout"
          /\ proxy.req[id].timeout_task = "done"
          /\ proxy.req[id].scope = "exited"

====
